---- MODULE Spec2Model ----
\* Verification model of the escrow contracts of zdnemz/escrow-contract:
\*   - the simple, deadline-driven Escrow  (apps/contracts/contracts/Escrow.sol)
\*   - the gas-abstracted Escrow with meta-transactions and arbiter fee
\*     (the Solidity contract in unnamed/part_011, lines 476-1045)
\* One instance is modelled; params.variant says which contract it is.
\* Every external function is one action that runs the whole call: modifiers,
\* body, internal helpers and transfers, with EVM revert semantics (a failing
\* call restores storage and balance and discards its transfers and events).
EXTENDS Integers, Sequences, FiniteSets, TLC

\* ---------------------------------------------------------------------------
\* Bounds of the model
\* ---------------------------------------------------------------------------

\* width of the scaled-down unsigned word (the contracts use uint256)
WordBits == 17
UintMax == 2^WordBits - 1

\* block.timestamp runs from CreationTime to MaxTime
MaxTime == 4

\* ---------------------------------------------------------------------------
\* Identities
\* ---------------------------------------------------------------------------

Zero == "zero"
Buyer == "buyer"
Seller == "seller"
Arb == "arb"
Other == "other"
\* address recovered from a signature that was made over a different digest
Unknown == "unknown"

\* accounts able to send a transaction (msg.sender is never address(0))
Callers == {Buyer, Seller, Arb, Other}

\* ---------------------------------------------------------------------------
\* enum State
\* ---------------------------------------------------------------------------

AWAITING_PAYMENT == "AWAITING_PAYMENT"
FUNDED == "FUNDED"
DELIVERED == "DELIVERED"
COMPLETE == "COMPLETE"
REFUNDED == "REFUNDED"
DISPUTED == "DISPUTED"

State == {AWAITING_PAYMENT, FUNDED, DELIVERED, COMPLETE, REFUNDED, DISPUTED}

\* enum ActionType
MARK_DELIVERED == "MARK_DELIVERED"
CONFIRM_DELIVERY == "CONFIRM_DELIVERY"
REQUEST_REFUND == "REQUEST_REFUND"
RAISE_DISPUTE == "RAISE_DISPUTE"

ActionType == {MARK_DELIVERED, CONFIRM_DELIVERY, REQUEST_REFUND, RAISE_DISPUTE}

\* ---------------------------------------------------------------------------
\* Input sets
\* ---------------------------------------------------------------------------

\* block.timestamp at construction
CreationTime == 1

\* "21000; // Include base tx cost" in _reimburseGas
BaseTxCost == 21000

\* constructor arguments that are tried
Principals == {0, 2}
ArbiterFees == {0, 1}
DeliveryDeadlines == {CreationTime, CreationTime + 1}
ReviewPeriods == {0, 1, UintMax}
MaxGasPrices == {0, 2}
MaxGasPerActions == {0, 1, 30000}
\* gas pool amounts a buyer declares; 0 = none
GasPools == {0, 1, 50000}

\* tx.gasprice of a relayed transaction, and startGas - gasleft()
GasPrices == {1, 3}
GasSpent == {5000}

\* expiry timestamps ("deadline") put into signed actions, and nonces
SigDeadlines == {CreationTime, MaxTime}
SigNonces == {0, 1}

\* recipients that reject an incoming transfer during a call
RejectSets == {{}, {Buyer}, {Seller}, {Arb}}

\* ---------------------------------------------------------------------------
\* Checked uint256 arithmetic (Solidity 0.8: overflow reverts with Panic(0x11))
\* ---------------------------------------------------------------------------

AddOverflows(a, b) == a + b > UintMax
MulOverflows(a, b) == a * b > UintMax

Min(a, b) == IF a < b THEN a ELSE b

\* ---------------------------------------------------------------------------
\* Storage and the running call
\* ---------------------------------------------------------------------------

NonceKeys == Callers \X ActionType

\* storage right after deployment, before the constructor body has run
EmptyStorage ==
    [state |-> AWAITING_PAYMENT,
     deliveredAt |-> 0,
     gasPoolBalance |-> 0,
     arbiterFeePaid |-> FALSE,
     nonces |-> [k \in NonceKeys |-> 0]]

\* A running call: storage, the balance held by the instance, the effects so
\* far (transfers, events) in program order, and the error once it has failed.
NoError == "none"

Running(st, bal) ==
    [st |-> st, bal |-> bal, log |-> <<>>, err |-> NoError, entered |-> FALSE]

Failed(m) == m.err # NoError

\* "revert X()" / a failed require at this point of the call
RevertWith(m, e) == IF Failed(m) THEN m ELSE [m EXCEPT !.err = e]

\* "if (!cond) revert e" : the call goes on only when cond holds
Require(m, cond, e) == IF Failed(m) \/ cond THEN m ELSE [m EXCEPT !.err = e]

\* a storage write
SetState(m, s) == IF Failed(m) THEN m ELSE [m EXCEPT !.st.state = s]
SetDeliveredAt(m, t) == IF Failed(m) THEN m ELSE [m EXCEPT !.st.deliveredAt = t]
SetGasPool(m, g) == IF Failed(m) THEN m ELSE [m EXCEPT !.st.gasPoolBalance = g]

\* log entries
Xfer(to, amt, what, pr) ==
    [k |-> "xfer", who |-> to, amt |-> amt, what |-> what, pr |-> pr]
Event(name, who, amt) ==
    [k |-> "event", who |-> who, amt |-> amt, what |-> name, pr |-> 0]

Emit(m, name, who, amt) ==
    IF Failed(m) THEN m ELSE [m EXCEPT !.log = Append(@, Event(name, who, amt))]

\* msg.value of a payable call is credited before the body runs
Receive(m, value) == IF Failed(m) THEN m ELSE [m EXCEPT !.bal = @ + value]

\* Address.sendValue(recipient, amount): reverts when the balance is too small
\* or when the recipient rejects the call. what/pr say which tracked component
\* the amount is made of (pr = the part of it that is principal).
\* a send whose result is ignored: a rejected transfer is skipped
sendValue_unchecked(m, to, amt, what, pr, rej) ==
    IF Failed(m) THEN m
    ELSE IF m.bal < amt THEN RevertWith(m, "InsufficientBalance")
    ELSE IF to \in rej THEN m
    ELSE [m EXCEPT !.bal = @ - amt, !.log = Append(@, Xfer(to, amt, what, pr))]

sendValue(m, to, amt, what, pr, rej) ==
    IF Failed(m) THEN m
    ELSE IF m.bal < amt THEN RevertWith(m, "InsufficientBalance")
    ELSE IF to \in rej THEN RevertWith(m, "FailedCall")
    ELSE [m EXCEPT !.bal = @ - amt, !.log = Append(@, Xfer(to, amt, what, pr))]

\* ---------------------------------------------------------------------------
\* Modifiers (both contracts)
\* ---------------------------------------------------------------------------

\* the lock left out
nonReentrant_open(m) == m

nonReentrant(m) ==
    IF Failed(m) THEN m
    ELSE IF m.entered THEN RevertWith(m, "ReentrancyGuardReentrantCall")
    ELSE [m EXCEPT !.entered = TRUE]

onlyBuyer(m, p, c) == Require(m, c.caller = p.buyer, "OnlyBuyer")
\* onlySeller comparing with the buyer
onlySeller_buyer(m, p, c) == Require(m, c.caller = p.buyer, "OnlySeller")

onlySeller(m, p, c) == Require(m, c.caller = p.seller, "OnlySeller")
onlyArbiter(m, p, c) == Require(m, c.caller = p.arbiter, "OnlyArbiter")
onlyRelayer(m, p, c) == Require(m, c.caller = p.arbiter, "OnlyRelayer")
\* inState with the state check left out
inState_unchecked(m, s) == m

inState(m, s) == Require(m, m.st.state = s, "InvalidState")

\* the checked sum deliveredAt + reviewPeriod
ReviewSumFits(m, p) ==
    Require(m, ~AddOverflows(m.st.deliveredAt, p.reviewPeriod), "Panic")

\* ---------------------------------------------------------------------------
\* Simple Escrow (Escrow.sol)
\* ---------------------------------------------------------------------------

\* deposit accepting any value that covers the amount
deposit_atleast(p, m, c) ==
    LET m1 == Receive(m, c.value)
        m2 == onlyBuyer(m1, p, c)
        m3 == inState(m2, AWAITING_PAYMENT)
        m4 == Require(m3, c.value >= p.amount, "IncorrectAmount")
        m5 == SetState(m4, FUNDED)
    IN  Emit(m5, "Deposited", c.caller, c.value)

deposit(p, m, c) ==
    LET m1 == Receive(m, c.value)
        m2 == onlyBuyer(m1, p, c)
        m3 == inState(m2, AWAITING_PAYMENT)
        m4 == Require(m3, c.value = p.amount, "IncorrectAmount")
        m5 == SetState(m4, FUNDED)
    IN  Emit(m5, "Deposited", c.caller, c.value)

\* markDelivered leaving deliveredAt as it is
markDelivered_unstamped(p, m, c) ==
    LET m1 == onlySeller(m, p, c)
        m2 == inState(m1, FUNDED)
        m3 == Require(m2, ~(c.now > p.deliveryDeadline), "DeliveryDeadlinePassed")
        m4 == SetState(m3, DELIVERED)
    IN  Emit(m4, "DeliveryMarked", c.caller, c.now)

markDelivered(p, m, c) ==
    LET m1 == onlySeller(m, p, c)
        m2 == inState(m1, FUNDED)
        m3 == Require(m2, ~(c.now > p.deliveryDeadline), "DeliveryDeadlinePassed")
        m4 == SetState(m3, DELIVERED)
        m5 == SetDeliveredAt(m4, c.now)
    IN  Emit(m5, "DeliveryMarked", c.caller, c.now)

confirmDelivery(p, m, c) ==
    LET m1 == nonReentrant(m)
        m2 == onlyBuyer(m1, p, c)
        m3 == inState(m2, DELIVERED)
        m4 == ReviewSumFits(m3, p)
        m5 == Require(m4, ~(c.now > m4.st.deliveredAt + p.reviewPeriod),
                      "ReviewPeriodEnded")
        m6 == SetState(m5, COMPLETE)
        m7 == sendValue(m6, p.seller, m6.bal, "principal", m6.bal, c.rej)
    IN  Emit(m7, "DeliveryConfirmed", c.caller, 0)

\* refund accepted after delivery instead of before it
refund_afterdelivery(p, m, c) ==
    LET m1 == nonReentrant(m)
        m2 == onlySeller(m1, p, c)
        m3 == inState(m2, DELIVERED)
        m4 == SetState(m3, REFUNDED)
        balance == m4.bal
        m5 == sendValue(m4, p.buyer, balance, "principal", balance, c.rej)
    IN  Emit(m5, "Refunded", c.caller, balance)

\* refund accepted only up to the delivery deadline
refund_beforedeadline(p, m, c) ==
    LET m1 == nonReentrant(m)
        m2 == onlySeller(m1, p, c)
        m3 == inState(m2, FUNDED)
        m3a == Require(m3, ~(c.now > p.deliveryDeadline), "DeliveryDeadlinePassed")
        m4 == SetState(m3a, REFUNDED)
        balance == m4.bal
        m5 == sendValue(m4, p.buyer, balance, "principal", balance, c.rej)
    IN  Emit(m5, "Refunded", c.caller, balance)

refund(p, m, c) ==
    LET m1 == nonReentrant(m)
        m2 == onlySeller(m1, p, c)
        m3 == inState(m2, FUNDED)
        m4 == SetState(m3, REFUNDED)
        balance == m4.bal
        m5 == sendValue(m4, p.buyer, balance, "principal", balance, c.rej)
    IN  Emit(m5, "Refunded", c.caller, balance)

claimByTimeout(p, m, c) ==
    LET m1 == nonReentrant(m)
        m2 == inState(m1, DELIVERED)
        m3 == ReviewSumFits(m2, p)
        m4 == Require(m3, ~(c.now <= m3.st.deliveredAt + p.reviewPeriod),
                      "ReviewPeriodNotEnded")
        m5 == SetState(m4, COMPLETE)
        balance == m5.bal
        m6 == sendValue(m5, p.seller, balance, "principal", balance, c.rej)
    IN  Emit(m6, "AutoReleased", c.caller, balance)

claimRefundByTimeout(p, m, c) ==
    LET m1 == nonReentrant(m)
        m2 == onlyBuyer(m1, p, c)
        m3 == inState(m2, FUNDED)
        m4 == Require(m3, ~(c.now <= p.deliveryDeadline), "DeliveryDeadlineNotPassed")
        m5 == SetState(m4, REFUNDED)
        balance == m5.bal
        m6 == sendValue(m5, p.buyer, balance, "principal", balance, c.rej)
    IN  Emit(m6, "AutoRefunded", c.caller, balance)

\* dispute without the check that an arbiter is set
dispute_anyarbiter(p, m, c) ==
    LET m1 == inState(m, DELIVERED)
        m2 == Require(m1, ~(c.caller # p.buyer /\ c.caller # p.seller),
                      "OnlyBuyerOrSeller")
        m4 == ReviewSumFits(m2, p)
        m5 == Require(m4, ~(c.now > m4.st.deliveredAt + p.reviewPeriod),
                      "ReviewPeriodEnded")
        m6 == SetState(m5, DISPUTED)
    IN  Emit(m6, "DisputeOpened", c.caller, 0)

dispute(p, m, c) ==
    LET m1 == inState(m, DELIVERED)
        m2 == Require(m1, ~(c.caller # p.buyer /\ c.caller # p.seller),
                      "OnlyBuyerOrSeller")
        m3 == Require(m2, ~(p.arbiter = Zero), "NoArbiterSet")
        m4 == ReviewSumFits(m3, p)
        m5 == Require(m4, ~(c.now > m4.st.deliveredAt + p.reviewPeriod),
                      "ReviewPeriodEnded")
        m6 == SetState(m5, DISPUTED)
    IN  Emit(m6, "DisputeOpened", c.caller, 0)

\* resolveDispute with the two outcome states exchanged
resolveDispute_flipped(p, m, c) ==
    LET m1 == nonReentrant(m)
        m2 == onlyArbiter(m1, p, c)
        m3 == inState(m2, DISPUTED)
        m4 == Require(m3, ~(c.winner # p.buyer /\ c.winner # p.seller),
                      "InvalidWinner")
        balance == m4.bal
        m5 == SetState(m4, IF c.winner = p.buyer THEN COMPLETE ELSE REFUNDED)
        m6 == sendValue(m5, c.winner, balance, "principal", balance, c.rej)
    IN  Emit(m6, "DisputeResolved", c.caller, balance)

resolveDispute(p, m, c) ==
    LET m1 == nonReentrant(m)
        m2 == onlyArbiter(m1, p, c)
        m3 == inState(m2, DISPUTED)
        m4 == Require(m3, ~(c.winner # p.buyer /\ c.winner # p.seller),
                      "InvalidWinner")
        balance == m4.bal
        m5 == SetState(m4, IF c.winner = p.buyer THEN REFUNDED ELSE COMPLETE)
        m6 == sendValue(m5, c.winner, balance, "principal", balance, c.rej)
    IN  Emit(m6, "DisputeResolved", c.caller, balance)

\* ---------------------------------------------------------------------------
\* Gas-abstracted Escrow: signatures
\* ---------------------------------------------------------------------------

\* the instance that is modelled, and another instance with the same parties
ThisInstance == "this"
ThatInstance == "that"

\* A signature is known by what its signer signed: the EIP-712 typed message
\* EscrowAction(actionType, nonce, deadline) under the domain of one instance.
Signers == {Buyer, Seller, Other}

Signatures ==
    [signer : Signers, inst : {ThisInstance, ThatInstance}, kind : ActionType,
     nonce : SigNonces, deadline : SigDeadlines]

\* bytes that are no well-formed signature
Malformed ==
    [signer |-> Zero, inst |-> Zero, kind |-> Zero, nonce |-> 0, deadline |-> 0]

\* _hashTypedDataV4(keccak256(abi.encode(TYPEHASH, actionType, nonce, deadline)))
\* of an instance: the hash is collision-free, so the digest is its preimage
\* a digest without the domain of the instance
getActionDigest_nodomain(inst, actionType, nonce, deadline) ==
    <<"Escrow", "1", actionType, nonce, deadline>>

getActionDigest(inst, actionType, nonce, deadline) ==
    <<"Escrow", "1", inst, actionType, nonce, deadline>>

\* the digest a signature was made over
SignedDigest(sig) == getActionDigest(sig.inst, sig.kind, sig.nonce, sig.deadline)

\* ECDSA.recover(digest, signature): the signer when the signature was made over
\* this digest, an unrelated address otherwise
\* a recovery that does not depend on the digest
recover_signer(digest, sig) == sig.signer

recover(digest, sig) == IF SignedDigest(sig) = digest THEN sig.signer ELSE Unknown

\* the increment left out
BumpNonce_skipped(m, expectedSigner, actionType) == m

\* the increment applied to every action kind of the signer
BumpNonce_allkinds(m, expectedSigner, actionType) ==
    IF Failed(m) THEN m
    ELSE [m EXCEPT !.st.nonces =
            [k \in DOMAIN @ |-> IF k[1] = expectedSigner THEN @[k] + 1 ELSE @[k]]]

\* nonces[expectedSigner][actionType]++
BumpNonce(m, expectedSigner, actionType) ==
    IF Failed(m) THEN m
    ELSE [m EXCEPT !.st.nonces[<<expectedSigner, actionType>>] = @ + 1]

_verifySignature(m, expectedSigner, actionType, nonce, deadline, signature) ==
    LET m1 == Require(m, ~(m.st.nonces[<<expectedSigner, actionType>>] # nonce),
                      "InvalidNonce")
        digest == getActionDigest(ThisInstance, actionType, nonce, deadline)
        m2 == Require(m1, signature # Malformed, "ECDSAInvalidSignature")
        recoveredSigner == recover(digest, signature)
        m3 == Require(m2, ~(recoveredSigner # expectedSigner), "InvalidSignature")
    IN  BumpNonce(m3, expectedSigner, actionType)

\* ---------------------------------------------------------------------------
\* Gas-abstracted Escrow: internal helpers
\* ---------------------------------------------------------------------------

\* payable(to).transfer(amt): reverts when the recipient rejects
transfer(m, to, amt, what, rej) ==
    IF Failed(m) THEN m
    ELSE IF m.bal < amt \/ to \in rej THEN RevertWith(m, "TransferFailed")
    ELSE [m EXCEPT !.bal = @ - amt, !.log = Append(@, Xfer(to, amt, what, 0))]

\* the capped cost, not capped at the pool
GasRefund_uncapped(p, pool, gasSpent, gasPrice) ==
    LET gasUsed == gasSpent + BaseTxCost
    IN  Min(gasUsed, p.maxGasPerAction) * Min(gasPrice, p.maxGasPrice)

\* the amount _reimburseGas pays: capped cost, then capped at the pool
GasRefund(p, pool, gasSpent, gasPrice) ==
    LET gasUsed == gasSpent + BaseTxCost
        effectiveGasPrice == IF gasPrice < p.maxGasPrice THEN gasPrice ELSE p.maxGasPrice
        effectiveGasUsed == IF gasUsed < p.maxGasPerAction THEN gasUsed
                            ELSE p.maxGasPerAction
        refundAmt == effectiveGasUsed * effectiveGasPrice
    IN  IF refundAmt > pool THEN pool ELSE refundAmt

\* _reimburseGas paying and reporting also a reimbursement of 0
_reimburseGas_always(m, p, c) ==
    LET gasUsed == c.gasSpent + BaseTxCost
        m1 == Require(m, ~AddOverflows(c.gasSpent, BaseTxCost), "Panic")
        m2 == Require(m1, ~MulOverflows(Min(gasUsed, p.maxGasPerAction),
                                        Min(c.gasPrice, p.maxGasPrice)), "Panic")
        refundAmt == GasRefund(p, m2.st.gasPoolBalance, c.gasSpent, c.gasPrice)
    IN  IF Failed(m2) THEN m2
        ELSE LET m3 == SetGasPool(m2, m2.st.gasPoolBalance - refundAmt)
                 m4 == transfer(m3, c.caller, refundAmt, "gas", c.rej)
             IN  Emit(m4, "GasReimbursed", c.caller, refundAmt)

_reimburseGas(m, p, c) ==
    LET gasUsed == c.gasSpent + BaseTxCost
        m1 == Require(m, ~AddOverflows(c.gasSpent, BaseTxCost), "Panic")
        m2 == Require(m1, ~MulOverflows(Min(gasUsed, p.maxGasPerAction),
                                        Min(c.gasPrice, p.maxGasPrice)), "Panic")
        refundAmt == GasRefund(p, m2.st.gasPoolBalance, c.gasSpent, c.gasPrice)
    IN  IF Failed(m2) \/ ~(refundAmt > 0) THEN m2
        ELSE LET m3 == SetGasPool(m2, m2.st.gasPoolBalance - refundAmt)
                 m4 == transfer(m3, c.caller, refundAmt, "gas", c.rej)
             IN  Emit(m4, "GasReimbursed", c.caller, refundAmt)

\* _refundGasPool doing nothing: the leftover stays in the instance
_refundGasPool_skipped(m, p, c) == m

\* _refundGasPool paying the leftover without clearing gasPoolBalance
_refundGasPool_uncleared(m, p, c) ==
    IF Failed(m) \/ ~(m.st.gasPoolBalance > 0) THEN m
    ELSE LET refundAmt == m.st.gasPoolBalance
             m2 == sendValue(m, p.buyer, refundAmt, "pool", 0, c.rej)
         IN  Emit(m2, "GasPoolRefunded", p.buyer, refundAmt)

_refundGasPool(m, p, c) ==
    IF Failed(m) \/ ~(m.st.gasPoolBalance > 0) THEN m
    ELSE LET refundAmt == m.st.gasPoolBalance
             m1 == SetGasPool(m, 0)
             m2 == sendValue(m1, p.buyer, refundAmt, "pool", 0, c.rej)
         IN  Emit(m2, "GasPoolRefunded", p.buyer, refundAmt)

\* _payArbiterFee with the latch test inverted: the fee is never paid
_payArbiterFee_never(m, p, c) ==
    IF Failed(m) \/ ~m.st.arbiterFeePaid \/ p.arbiterFee = 0 THEN m
    ELSE LET m1 == [m EXCEPT !.st.arbiterFeePaid = TRUE]
             m2 == sendValue(m1, p.arbiter, p.arbiterFee, "fee", 0, c.rej)
         IN  Emit(m2, "ArbiterFeePaid", p.arbiter, p.arbiterFee)

\* _payArbiterFee without the write of the latch
_payArbiterFee_nolatch(m, p, c) ==
    IF Failed(m) \/ m.st.arbiterFeePaid \/ p.arbiterFee = 0 THEN m
    ELSE LET m2 == sendValue(m, p.arbiter, p.arbiterFee, "fee", 0, c.rej)
         IN  Emit(m2, "ArbiterFeePaid", p.arbiter, p.arbiterFee)

_payArbiterFee(m, p, c) ==
    IF Failed(m) \/ m.st.arbiterFeePaid \/ p.arbiterFee = 0 THEN m
    ELSE LET m1 == [m EXCEPT !.st.arbiterFeePaid = TRUE]
             m2 == sendValue(m1, p.arbiter, p.arbiterFee, "fee", 0, c.rej)
         IN  Emit(m2, "ArbiterFeePaid", p.arbiter, p.arbiterFee)

\* ---------------------------------------------------------------------------
\* Gas-abstracted Escrow: external functions
\* ---------------------------------------------------------------------------

deposit_ga(p, m, c) ==
    LET m1 == Receive(m, c.value)
        m2 == onlyBuyer(m1, p, c)
        m3 == inState(m2, AWAITING_PAYMENT)
        m4 == Require(m3, ~AddOverflows(p.escrowAmount + p.arbiterFee, c.gasPool),
                      "Panic")
        m5 == Require(m4, ~(c.value # p.escrowAmount + p.arbiterFee + c.gasPool),
                      "IncorrectAmount")
        m6 == SetGasPool(m5, c.gasPool)
        m7 == SetState(m6, FUNDED)
    IN  Emit(m7, "Deposited", c.caller, p.escrowAmount)

\* metaMarkDelivered rejecting a signed action already at its expiry
metaMarkDelivered_strict(p, m, c) ==
    LET m1 == nonReentrant(m)
        m2 == onlyRelayer(m1, p, c)
        m3 == inState(m2, FUNDED)
        m4 == Require(m3, ~(c.now >= c.deadline), "SignatureExpired")
        m5 == Require(m4, ~(c.now > p.deliveryDeadline), "DeliveryDeadlinePassed")
        m6 == _verifySignature(m5, p.seller, MARK_DELIVERED, c.nonce, c.deadline,
                               c.signature)
        m7 == SetState(m6, DELIVERED)
        m8 == SetDeliveredAt(m7, c.now)
        m9 == Emit(m8, "DeliveryMarked", p.seller, c.now)
        m10 == Emit(m9, "MetaActionExecuted", p.seller, c.nonce)
    IN  _reimburseGas(m10, p, c)

metaMarkDelivered(p, m, c) ==
    LET m1 == nonReentrant(m)
        m2 == onlyRelayer(m1, p, c)
        m3 == inState(m2, FUNDED)
        m4 == Require(m3, ~(c.now > c.deadline), "SignatureExpired")
        m5 == Require(m4, ~(c.now > p.deliveryDeadline), "DeliveryDeadlinePassed")
        m6 == _verifySignature(m5, p.seller, MARK_DELIVERED, c.nonce, c.deadline,
                               c.signature)
        m7 == SetState(m6, DELIVERED)
        m8 == SetDeliveredAt(m7, c.now)
        m9 == Emit(m8, "DeliveryMarked", p.seller, c.now)
        m10 == Emit(m9, "MetaActionExecuted", p.seller, c.nonce)
    IN  _reimburseGas(m10, p, c)

metaConfirmDelivery(p, m, c) ==
    LET m1 == nonReentrant(m)
        m2 == onlyRelayer(m1, p, c)
        m3 == inState(m2, DELIVERED)
        m4 == Require(m3, ~(c.now > c.deadline), "SignatureExpired")
        m5 == ReviewSumFits(m4, p)
        m6 == Require(m5, ~(c.now > m5.st.deliveredAt + p.reviewPeriod),
                      "ReviewPeriodEnded")
        m7 == _verifySignature(m6, p.buyer, CONFIRM_DELIVERY, c.nonce, c.deadline,
                               c.signature)
        m8 == SetState(m7, COMPLETE)
        m9 == Emit(m8, "DeliveryConfirmed", p.buyer, 0)
        m10 == Emit(m9, "MetaActionExecuted", p.buyer, c.nonce)
        m11 == _reimburseGas(m10, p, c)
        m12 == _payArbiterFee(m11, p, c)
        m13 == _refundGasPool(m12, p, c)
    IN  sendValue(m13, p.seller, p.escrowAmount, "principal", p.escrowAmount, c.rej)

metaRefund(p, m, c) ==
    LET m1 == nonReentrant(m)
        m2 == onlyRelayer(m1, p, c)
        m3 == inState(m2, FUNDED)
        m4 == Require(m3, ~(c.now > c.deadline), "SignatureExpired")
        m5 == _verifySignature(m4, p.seller, REQUEST_REFUND, c.nonce, c.deadline,
                               c.signature)
        m6 == SetState(m5, REFUNDED)
        m7 == Emit(m6, "Refunded", p.seller, p.escrowAmount)
        m8 == Emit(m7, "MetaActionExecuted", p.seller, c.nonce)
        m9 == _reimburseGas(m8, p, c)
        m10 == _payArbiterFee(m9, p, c)
        m11 == Require(m10, ~AddOverflows(p.escrowAmount, m10.st.gasPoolBalance),
                       "Panic")
        totalRefund == p.escrowAmount + m11.st.gasPoolBalance
        m12 == SetGasPool(m11, 0)
    IN  sendValue(m12, p.buyer, totalRefund, "principal+pool", p.escrowAmount, c.rej)

metaDispute(p, m, c) ==
    LET m1 == nonReentrant(m)
        m2 == onlyRelayer(m1, p, c)
        m3 == inState(m2, DELIVERED)
        m4 == Require(m3, ~(c.signer # p.buyer /\ c.signer # p.seller),
                      "InvalidSigner")
        m5 == Require(m4, ~(c.now > c.deadline), "SignatureExpired")
        m6 == ReviewSumFits(m5, p)
        m7 == Require(m6, ~(c.now > m6.st.deliveredAt + p.reviewPeriod),
                      "ReviewPeriodEnded")
        m8 == Require(m7, ~(p.arbiter = Zero), "NoArbiterSet")
        m9 == _verifySignature(m8, c.signer, RAISE_DISPUTE, c.nonce, c.deadline,
                               c.signature)
        m10 == SetState(m9, DISPUTED)
        m11 == Emit(m10, "DisputeOpened", c.signer, 0)
        m12 == Emit(m11, "MetaActionExecuted", c.signer, c.nonce)
    IN  _reimburseGas(m12, p, c)

resolveDispute_ga(p, m, c) ==
    LET m1 == nonReentrant(m)
        m2 == onlyArbiter(m1, p, c)
        m3 == inState(m2, DISPUTED)
        m4 == Require(m3, ~(c.winner # p.buyer /\ c.winner # p.seller),
                      "InvalidWinner")
        m5 == SetState(m4, IF c.winner = p.buyer THEN REFUNDED ELSE COMPLETE)
        m6 == Emit(m5, "DisputeResolved", c.caller, p.escrowAmount)
        m7 == _reimburseGas(m6, p, c)
        m8 == _payArbiterFee(m7, p, c)
        m9 == _refundGasPool(m8, p, c)
    IN  sendValue(m9, c.winner, p.escrowAmount, "principal", p.escrowAmount, c.rej)

claimByTimeout_ga(p, m, c) ==
    LET m1 == nonReentrant(m)
        m2 == inState(m1, DELIVERED)
        m3 == ReviewSumFits(m2, p)
        m4 == Require(m3, ~(c.now <= m3.st.deliveredAt + p.reviewPeriod),
                      "ReviewPeriodNotEnded")
        m5 == SetState(m4, COMPLETE)
        m6 == Emit(m5, "AutoReleased", c.caller, p.escrowAmount)
        m7 == _payArbiterFee(m6, p, c)
        m8 == _refundGasPool(m7, p, c)
    IN  sendValue(m8, p.seller, p.escrowAmount, "principal", p.escrowAmount, c.rej)

claimRefundByTimeout_ga(p, m, c) ==
    LET m1 == nonReentrant(m)
        m2 == onlyBuyer(m1, p, c)
        m3 == inState(m2, FUNDED)
        m4 == Require(m3, ~(c.now <= p.deliveryDeadline), "DeliveryDeadlineNotPassed")
        m5 == SetState(m4, REFUNDED)
        m6 == Require(m5, ~AddOverflows(p.escrowAmount, m5.st.gasPoolBalance), "Panic")
        totalRefund == p.escrowAmount + m6.st.gasPoolBalance
        m7 == SetGasPool(m6, 0)
        m8 == Emit(m7, "AutoRefunded", c.caller, totalRefund)
        m9 == _payArbiterFee(m8, p, c)
    IN  sendValue(m9, p.buyer, totalRefund, "principal+pool", p.escrowAmount, c.rej)

\* ---------------------------------------------------------------------------
\* Constructors
\* ---------------------------------------------------------------------------

\* the immutables; a carries the constructor arguments
Immutables(variant, a) ==
    [variant |-> variant, buyer |-> a.buyer, seller |-> a.seller,
     arbiter |-> a.arbiter,
     amount |-> IF variant = "simple" THEN a.amount ELSE 0,
     escrowAmount |-> IF variant = "simple" THEN 0 ELSE a.amount,
     deliveryDeadline |-> a.deliveryDeadline, reviewPeriod |-> a.reviewPeriod,
     maxGasPrice |-> a.maxGasPrice, maxGasPerAction |-> a.maxGasPerAction,
     arbiterFee |-> a.arbiterFee]

\* Escrow.sol constructor; c.value is msg.value, c.now block.timestamp
constructor(a, m, c) ==
    LET m0 == Receive(m, c.value)
        m1 == Require(m0, a.buyer # Zero, "Invalid buyer")
        m2 == Require(m1, a.seller # Zero, "Invalid seller")
        m3 == Require(m2, a.amount > 0, "Amount must be > 0")
        m4 == Require(m3, a.deliveryDeadline > c.now, "Deadline must be future")
        m5 == Require(m4, a.reviewPeriod > 0, "Review period must be > 0")
    IN  IF c.value > 0
        THEN LET m6 == Require(m5, ~(c.value # a.amount), "IncorrectAmount")
                 m7 == SetState(m6, FUNDED)
             IN  Emit(m7, "Deposited", a.buyer, c.value)
        ELSE SetState(m5, AWAITING_PAYMENT)

\* the constructor accepting a deployment that brings no gas pool
constructor_ga_nopool(a, m, c) ==
    LET m0 == Receive(m, c.value)
        m1 == Require(m0, a.buyer # Zero, "Invalid buyer")
        m2 == Require(m1, a.seller # Zero, "Invalid seller")
        m3 == Require(m2, a.arbiter # Zero, "Invalid arbiter/relayer")
        m4 == Require(m3, a.amount > 0, "Escrow amount must be > 0")
        m5 == Require(m4, a.deliveryDeadline > c.now, "Deadline must be future")
        m6 == Require(m5, a.reviewPeriod > 0, "Review period must be > 0")
        m7 == Require(m6, a.maxGasPrice > 0, "Max gas price must be > 0")
        m8 == Require(m7, a.maxGasPerAction > 0, "Max gas per action must be > 0")
    IN  IF c.value > 0
        THEN LET m9 == Require(m8, ~AddOverflows(a.amount, a.arbiterFee), "Panic")
                 m10 == Require(m9, c.value >= a.amount + a.arbiterFee,
                                "Must include gas pool")
                 m11 == SetGasPool(m10, c.value - a.amount - a.arbiterFee)
                 m12 == SetState(m11, FUNDED)
             IN  Emit(m12, "Deposited", a.buyer, a.amount)
        ELSE SetState(m8, AWAITING_PAYMENT)

\* constructor of the gas-abstracted Escrow
constructor_ga(a, m, c) ==
    LET m0 == Receive(m, c.value)
        m1 == Require(m0, a.buyer # Zero, "Invalid buyer")
        m2 == Require(m1, a.seller # Zero, "Invalid seller")
        m3 == Require(m2, a.arbiter # Zero, "Invalid arbiter/relayer")
        m4 == Require(m3, a.amount > 0, "Escrow amount must be > 0")
        m5 == Require(m4, a.deliveryDeadline > c.now, "Deadline must be future")
        m6 == Require(m5, a.reviewPeriod > 0, "Review period must be > 0")
        m7 == Require(m6, a.maxGasPrice > 0, "Max gas price must be > 0")
        m8 == Require(m7, a.maxGasPerAction > 0, "Max gas per action must be > 0")
    IN  IF c.value > 0
        THEN LET m9 == Require(m8, ~AddOverflows(a.amount, a.arbiterFee), "Panic")
                 m10 == Require(m9, c.value > a.amount + a.arbiterFee,
                                "Must include gas pool")
                 m11 == SetGasPool(m10, c.value - a.amount - a.arbiterFee)
                 m12 == SetState(m11, FUNDED)
             IN  Emit(m12, "Deposited", a.buyer, a.amount)
        ELSE SetState(m8, AWAITING_PAYMENT)

\* EscrowFactory.createEscrow: a carries the parameters handed on to the
\* constructor, gasPool is _gasPool; the result is the new instance as the
\* constructor leaves it, with the caller as buyer
createEscrow(a, gasPool, c) ==
    LET m0 == Running(EmptyStorage, 0)
        m1 == Require(m0, ~AddOverflows(a.amount, gasPool), "Panic")
        m2 == Require(m1, ~AddOverflows(a.amount + gasPool, a.arbiterFee), "Panic")
        m3 == Require(m2, c.value = a.amount + gasPool + a.arbiterFee,
                      "Incorrect payment")
        m4 == IF Failed(m3) THEN m3
              ELSE constructor_ga([a EXCEPT !.buyer = c.caller], m3, c)
    IN  Emit(m4, "EscrowCreated", c.caller, a.amount)

\* ---------------------------------------------------------------------------
\* The ledger: one instance, the clock, and the bookkeeping of what was paid
\* ---------------------------------------------------------------------------

VARIABLES
    params,     \* the immutables of the instance
    st,         \* its storage
    bal,        \* address(this).balance
    now,        \* block.timestamp
    last,       \* the last call: function, caller, error, effects
    tot,        \* running totals of value received and paid out
    accepted    \* the signed actions accepted so far

vars == <<params, st, bal, now, last, tot, accepted>>

\* sum of Val(e) over the entries of a call's log
Total(log, Val(_)) ==
    LET RECURSIVE go(_)
        go(i) == IF i = 0 THEN 0 ELSE Val(log[i]) + go(i - 1)
    IN  go(Len(log))

IsXfer(e) == e.k = "xfer"
XferTo(log, who) == Total(log, LAMBDA e : IF IsXfer(e) /\ e.who = who THEN e.amt ELSE 0)
PrincipalTo(log, who) ==
    Total(log, LAMBDA e : IF IsXfer(e) /\ e.who = who THEN e.pr ELSE 0)
XferOf(log, what) ==
    Total(log, LAMBDA e : IF IsXfer(e) /\ e.what = what THEN e.amt ELSE 0)
XferOut(log) == Total(log, LAMBDA e : IF IsXfer(e) THEN e.amt ELSE 0)
PrincipalXfers(log) == Total(log, LAMBDA e : IF IsXfer(e) /\ e.pr > 0 THEN 1 ELSE 0)
\* leftover pool returned to the buyer, alone or together with the principal
PoolOut(log) ==
    Total(log, LAMBDA e : IF IsXfer(e) /\ e.what \in {"pool", "principal+pool"}
                          THEN e.amt - e.pr ELSE 0)

NoTotals ==
    [deposited |-> 0,
     paid |-> [a \in Callers |-> 0],
     principalPaid |-> [a \in Callers |-> 0],
     principalXfers |-> 0,
     feePaid |-> 0,
     feeFlips |-> 0,
     gasPaid |-> 0,
     poolPaid |-> 0,
     poolDeposited |-> 0]

\* totals after a call that received value and ended as machine out (out.log
\* is empty when the call reverted), from storage old
Account(t, old, out, value) ==
    [deposited |-> t.deposited + (IF Failed(out) THEN 0 ELSE value),
     paid |-> [a \in Callers |-> t.paid[a] + XferTo(out.log, a)],
     principalPaid |-> [a \in Callers |-> t.principalPaid[a] + PrincipalTo(out.log, a)],
     principalXfers |-> t.principalXfers + PrincipalXfers(out.log),
     feePaid |-> t.feePaid + XferOf(out.log, "fee"),
     feeFlips |-> t.feeFlips
                  + (IF ~old.arbiterFeePaid /\ out.st.arbiterFeePaid THEN 1 ELSE 0),
     gasPaid |-> t.gasPaid + XferOf(out.log, "gas"),
     poolPaid |-> t.poolPaid + PoolOut(out.log),
     poolDeposited |-> IF old.state = AWAITING_PAYMENT /\ out.st.state = FUNDED
                       THEN out.st.gasPoolBalance ELSE t.poolDeposited]

\* a failure that returns instead of reverting: what the call did so far stays
Revert_kept(pre, m) == m

\* EVM revert: a failed call leaves storage and balance as they were before the
\* call (pre) and none of its transfers or events take effect
Revert(pre, m) == [pre EXCEPT !.err = m.err]

\* what a call that ran to machine m leaves behind
Outcome(pre, m) == IF Failed(m) THEN Revert(pre, m) ELSE [m EXCEPT !.entered = FALSE]

\* a call with default arguments
BaseCall(caller) ==
    [caller |-> caller, value |-> 0, now |-> now, rej |-> {}, winner |-> Zero,
     gasPool |-> 0, signer |-> Zero, signature |-> Malformed, nonce |-> 0,
     deadline |-> 0, gasSpent |-> 0, gasPrice |-> 0]

NoSubmission == [op |-> "none", signer |-> Zero, signature |-> Malformed,
                 nonce |-> 0, deadline |-> 0]

Submission(op, c) ==
    [op |-> op, signer |-> c.signer, signature |-> c.signature, nonce |-> c.nonce,
     deadline |-> c.deadline]

\* The transaction: run, then commit or revert. A committed call is recorded in
\* last, with the signed action it consumed (NoSubmission for a direct call);
\* a reverted call leaves no trace on the ledger.
Transact(op, c, m, sub) ==
    LET out == Outcome(Running(st, bal), m)
    IN  /\ st' = out.st
        /\ bal' = out.bal
        /\ tot' = Account(tot, st, out, c.value)
        /\ last' = IF Failed(out) THEN last
                   ELSE [op |-> op, caller |-> c.caller, log |-> out.log, sub |-> sub,
                         winner |-> c.winner]
        /\ accepted' = IF Failed(out) \/ sub = NoSubmission THEN accepted
                       ELSE accepted \cup {sub}
        /\ UNCHANGED <<params, now>>

\* ---------------------------------------------------------------------------
\* Init: the state right after a successful construction
\* ---------------------------------------------------------------------------

\* The constructors compare no identity with another: besides a third party
\* (or nobody, in the simple contract) the arbiter may be the seller. Of the
\* instances with the seller as arbiter, one of each variant is drawn.
ConstructorArgs ==
    [buyer : {Buyer}, seller : {Seller}, arbiter : {Arb, Zero}, amount : Principals,
     deliveryDeadline : DeliveryDeadlines, reviewPeriod : ReviewPeriods,
     maxGasPrice : MaxGasPrices, maxGasPerAction : MaxGasPerActions,
     arbiterFee : ArbiterFees]
    \cup
    {a \in [buyer : {Buyer}, seller : {Seller}, arbiter : {Seller}, amount : {2},
            deliveryDeadline : {CreationTime + 1}, reviewPeriod : {1},
            maxGasPrice : MaxGasPrices, maxGasPerAction : {0, 1},
            arbiterFee : ArbiterFees] :
        a.arbiterFee > 0 <=> a.maxGasPrice > 0}

\* the simple contract has no gas caps and no fee
SimpleArgs ==
    {a \in ConstructorArgs : a.maxGasPrice = 0 /\ a.maxGasPerAction = 0 /\ a.arbiterFee = 0}

\* msg.value sent along with the deployment
DeployValues(variant, a) ==
    IF variant = "simple" THEN {0, a.amount}
    ELSE {0} \cup {a.amount + a.arbiterFee + g : g \in GasPools}

Deployed(variant, a, value) ==
    LET c == [caller |-> a.buyer, value |-> value, now |-> CreationTime]
        m == Running(EmptyStorage, 0)
    IN  IF variant = "simple" THEN constructor(a, m, c) ELSE constructor_ga(a, m, c)

Init ==
    \E variant \in {"simple", "ga"} :
    \E a \in (IF variant = "simple" THEN SimpleArgs ELSE ConstructorArgs) :
    \E value \in DeployValues(variant, a) :
        LET m == Deployed(variant, a, value)
        IN  /\ ~Failed(m)
            /\ params = Immutables(variant, a)
            /\ st = m.st
            /\ bal = m.bal
            /\ now = CreationTime
            /\ last = [op |-> "constructor", caller |-> a.buyer, log |-> m.log,
                       sub |-> NoSubmission, winner |-> Zero]
            /\ tot = Account(NoTotals, EmptyStorage, m, value)
            /\ accepted = {}

\* ---------------------------------------------------------------------------
\* Actions: one per external function, and the clock
\* ---------------------------------------------------------------------------

IsSimple == params.variant = "simple"
IsGa == params.variant = "ga"

Winners == {Buyer, Seller, Other}

\* msg.value tried with deposit when `required` is due
DepositValues(required) == {0, required - 1, required, required + 1}

Tick ==
    /\ now < MaxTime
    /\ now' = now + 1
    /\ last' = [op |-> "tick", caller |-> Zero, log |-> <<>>, sub |-> NoSubmission,
                winner |-> Zero]
    /\ UNCHANGED <<params, st, bal, tot, accepted>>

\* The arguments of a call are enumerated in stages, leaving out those that
\* cannot matter: which recipients reject a transfer (and, for a relayed call,
\* the gas price) is varied only for calls that pass every guard, because the
\* guards of every function come before its first transfer.
Pre == Running(st, bal)

\* c with each choice of rejecting recipients
WithRejects(c) == {[c EXCEPT !.rej = rej] : rej \in RejectSets}

\* c with each choice of gas price, gas spent and rejecting recipients
WithGas(c) ==
    {[c EXCEPT !.rej = rej, !.gasSpent = g, !.gasPrice = gp] :
        rej \in RejectSets, g \in GasSpent, gp \in GasPrices}

Deposit ==
    /\ IsSimple
    /\ \E caller \in Callers, value \in DepositValues(params.amount) :
        LET c == [BaseCall(caller) EXCEPT !.value = value]
        IN  Transact("deposit", c, deposit(params, Pre, c), NoSubmission)

MarkDelivered ==
    /\ IsSimple
    /\ \E caller \in Callers :
        LET c == BaseCall(caller)
        IN  Transact("markDelivered", c, markDelivered(params, Pre, c), NoSubmission)

ConfirmDelivery ==
    /\ IsSimple
    /\ \E caller \in Callers :
        LET c0 == BaseCall(caller)
        IN  \E c \in (IF Failed(confirmDelivery(params, Pre, c0)) THEN {c0}
                      ELSE WithRejects(c0)) :
                Transact("confirmDelivery", c, confirmDelivery(params, Pre, c),
                         NoSubmission)

Refund ==
    /\ IsSimple
    /\ \E caller \in Callers :
        LET c0 == BaseCall(caller)
        IN  \E c \in (IF Failed(refund(params, Pre, c0)) THEN {c0}
                      ELSE WithRejects(c0)) :
                Transact("refund", c, refund(params, Pre, c), NoSubmission)

ClaimByTimeout ==
    /\ IsSimple
    /\ \E caller \in Callers :
        LET c0 == BaseCall(caller)
        IN  \E c \in (IF Failed(claimByTimeout(params, Pre, c0)) THEN {c0}
                      ELSE WithRejects(c0)) :
                Transact("claimByTimeout", c, claimByTimeout(params, Pre, c),
                         NoSubmission)

ClaimRefundByTimeout ==
    /\ IsSimple
    /\ \E caller \in Callers :
        LET c0 == BaseCall(caller)
        IN  \E c \in (IF Failed(claimRefundByTimeout(params, Pre, c0)) THEN {c0}
                      ELSE WithRejects(c0)) :
                Transact("claimRefundByTimeout", c,
                         claimRefundByTimeout(params, Pre, c), NoSubmission)

Dispute ==
    /\ IsSimple
    /\ \E caller \in Callers :
        LET c == BaseCall(caller)
        IN  Transact("dispute", c, dispute(params, Pre, c), NoSubmission)

ResolveDispute ==
    /\ IsSimple
    /\ \E caller \in Callers, winner \in Winners :
        LET c0 == [BaseCall(caller) EXCEPT !.winner = winner]
        IN  \E c \in (IF Failed(resolveDispute(params, Pre, c0)) THEN {c0}
                      ELSE WithRejects(c0)) :
                Transact("resolveDispute", c, resolveDispute(params, Pre, c),
                         NoSubmission)

\* errors raised by the modifiers, which read no argument
ModifierErrors ==
    {"ReentrancyGuardReentrantCall", "OnlyBuyer", "OnlySeller", "OnlyArbiter",
     "OnlyRelayer", "InvalidState"}

Deposit_ga ==
    /\ IsGa
    /\ \E caller \in Callers :
        LET c0 == BaseCall(caller)
        IN  \E c \in (IF deposit_ga(params, Pre, c0).err \in ModifierErrors THEN {c0}
                      ELSE {[c0 EXCEPT !.value = value, !.gasPool = gasPool] :
                              gasPool \in GasPools,
                              value \in {0} \cup {params.escrowAmount + params.arbiterFee
                                                   + g : g \in GasPools}}) :
                Transact("deposit", c, deposit_ga(params, Pre, c), NoSubmission)

\* The signed action a meta function expects from signer for its kind, with the
\* nonce and expiry the relayer passes.
Expected(signer, kind, n, d) ==
    [signer |-> signer, inst |-> ThisInstance, kind |-> kind, nonce |-> n,
     deadline |-> d]

\* the number of fields in which two signatures differ
Distance(s1, s2) ==
    Cardinality({f \in {"signer", "inst", "kind", "nonce", "deadline"} : s1[f] # s2[f]})

\* What a relayer submits to the meta function of a kind in the name of a
\* signer: any nonce and expiry, together with the expected signature, one that
\* differs from it in one respect (other signer, other instance, other kind,
\* other nonce or other expiry), or malformed bytes.
Submissions ==
    [sk \in Signers \X ActionType |->
        {[signature |-> sig, nonce |-> n, deadline |-> d] :
            n \in SigNonces, d \in SigDeadlines,
            sig \in Signatures \cup {Malformed}} \cap
        {x \in [signature : Signatures \cup {Malformed}, nonce : SigNonces,
                deadline : SigDeadlines] :
            \/ x.signature = Malformed
            \/ Distance(x.signature, Expected(sk[1], sk[2], x.nonce, x.deadline)) <= 1}]

RelayedCalls(caller, signer, kind) ==
    {[BaseCall(caller) EXCEPT !.signer = signer, !.signature = x.signature,
                              !.nonce = x.nonce, !.deadline = x.deadline] :
        x \in Submissions[<<signer, kind>>]}

\* the accepted submissions of a meta function, submitted again
Replays(op, caller) ==
    {[BaseCall(caller) EXCEPT !.signer = x.signer, !.signature = x.signature,
                              !.nonce = x.nonce, !.deadline = x.deadline] :
        x \in {y \in accepted : y.op = op}}

MetaMarkDelivered ==
    /\ IsGa
    /\ \E caller \in Callers :
        LET c0 == [BaseCall(caller) EXCEPT !.signer = params.seller]
        IN  \E c1 \in (IF metaMarkDelivered(params, Pre, c0).err \in ModifierErrors
                       THEN {c0} \cup Replays("metaMarkDelivered", caller)
                       ELSE RelayedCalls(caller, params.seller, MARK_DELIVERED)) :
            \E c \in (IF Failed(metaMarkDelivered(params, Pre, c1)) THEN {c1}
                      ELSE WithGas(c1)) :
                Transact("metaMarkDelivered", c, metaMarkDelivered(params, Pre, c),
                         Submission("metaMarkDelivered", c))

MetaConfirmDelivery ==
    /\ IsGa
    /\ \E caller \in Callers :
        LET c0 == [BaseCall(caller) EXCEPT !.signer = params.buyer]
        IN  \E c1 \in (IF metaConfirmDelivery(params, Pre, c0).err \in ModifierErrors
                       THEN {c0} \cup Replays("metaConfirmDelivery", caller)
                       ELSE RelayedCalls(caller, params.buyer, CONFIRM_DELIVERY)) :
            \E c \in (IF Failed(metaConfirmDelivery(params, Pre, c1)) THEN {c1}
                      ELSE WithGas(c1)) :
                Transact("metaConfirmDelivery", c,
                         metaConfirmDelivery(params, Pre, c),
                         Submission("metaConfirmDelivery", c))

MetaRefund ==
    /\ IsGa
    /\ \E caller \in Callers :
        LET c0 == [BaseCall(caller) EXCEPT !.signer = params.seller]
        IN  \E c1 \in (IF metaRefund(params, Pre, c0).err \in ModifierErrors
                       THEN {c0} \cup Replays("metaRefund", caller)
                       ELSE RelayedCalls(caller, params.seller, REQUEST_REFUND)) :
            \E c \in (IF Failed(metaRefund(params, Pre, c1)) THEN {c1}
                      ELSE WithGas(c1)) :
                Transact("metaRefund", c, metaRefund(params, Pre, c),
                         Submission("metaRefund", c))

MetaDispute ==
    /\ IsGa
    /\ \E caller \in Callers, signer \in Signers :
        LET c0 == [BaseCall(caller) EXCEPT !.signer = signer]
        IN  \E c1 \in (IF metaDispute(params, Pre, c0).err \in ModifierErrors
                       THEN {c0} \cup Replays("metaDispute", caller)
                       ELSE RelayedCalls(caller, signer, RAISE_DISPUTE)) :
            \E c \in (IF Failed(metaDispute(params, Pre, c1)) THEN {c1}
                      ELSE WithGas(c1)) :
                Transact("metaDispute", c, metaDispute(params, Pre, c),
                         Submission("metaDispute", c))

ResolveDispute_ga ==
    /\ IsGa
    /\ \E caller \in Callers, winner \in Winners :
        LET c0 == [BaseCall(caller) EXCEPT !.winner = winner]
        IN  \E c \in (IF Failed(resolveDispute_ga(params, Pre, c0)) THEN {c0}
                      ELSE WithGas(c0)) :
                Transact("resolveDispute", c, resolveDispute_ga(params, Pre, c),
                         NoSubmission)

ClaimByTimeout_ga ==
    /\ IsGa
    /\ \E caller \in Callers :
        LET c0 == BaseCall(caller)
        IN  \E c \in (IF Failed(claimByTimeout_ga(params, Pre, c0)) THEN {c0}
                      ELSE WithRejects(c0)) :
                Transact("claimByTimeout", c, claimByTimeout_ga(params, Pre, c),
                         NoSubmission)

ClaimRefundByTimeout_ga ==
    /\ IsGa
    /\ \E caller \in Callers :
        LET c0 == BaseCall(caller)
        IN  \E c \in (IF Failed(claimRefundByTimeout_ga(params, Pre, c0)) THEN {c0}
                      ELSE WithRejects(c0)) :
                Transact("claimRefundByTimeout", c,
                         claimRefundByTimeout_ga(params, Pre, c), NoSubmission)

Next ==
    \/ Tick
    \/ Deposit
    \/ MarkDelivered
    \/ ConfirmDelivery
    \/ Refund
    \/ ClaimByTimeout
    \/ ClaimRefundByTimeout
    \/ Dispute
    \/ ResolveDispute
    \/ Deposit_ga
    \/ MetaMarkDelivered
    \/ MetaConfirmDelivery
    \/ MetaRefund
    \/ MetaDispute
    \/ ResolveDispute_ga
    \/ ClaimByTimeout_ga
    \/ ClaimRefundByTimeout_ga

Spec == Init /\ [][Next]_vars

\* ---------------------------------------------------------------------------
\* Properties
\* ---------------------------------------------------------------------------

Terminal == st.state \in {COMPLETE, REFUNDED}

\* the principal of the instance
Principal == IF IsSimple THEN params.amount ELSE params.escrowAmount

\* all value transferred out so far
PaidOut == tot.paid[Buyer] + tot.paid[Seller] + tot.paid[Arb] + tot.paid[Other]

\* C1: the value held plus the value transferred out equals the value deposited
\* (at construction or through deposit), and a terminal instance holds nothing.
C1_ValueConserved ==
    /\ bal + PaidOut = tot.deposited
    /\ Terminal => bal = 0

\* a gas-abstracted instance settled after paying relayer, arbiter, buyer and seller
C1_Witness ==
    /\ IsGa
    /\ st.state = COMPLETE
    /\ tot.gasPaid > 0 /\ tot.feePaid > 0 /\ tot.poolPaid > 0
    /\ tot.principalPaid[Seller] > 0
    /\ bal = 0

Rank(s) ==
    CASE s = AWAITING_PAYMENT -> 0
      [] s = FUNDED -> 1
      [] s = DELIVERED -> 2
      [] s = DISPUTED -> 3
      [] s \in {COMPLETE, REFUNDED} -> 4

\* C2: no step moves the state to an earlier one in the order AWAITING_PAYMENT <
\* FUNDED < DELIVERED < DISPUTED < {COMPLETE, REFUNDED}, and no step changes a
\* state that is COMPLETE or REFUNDED.
C2_Monotonic ==
    [][/\ Rank(st'.state) >= Rank(st.state)
       /\ Terminal => st'.state = st.state]_vars

\* a dispute was resolved by a refund and time went on in the terminal state
C2_Witness ==
    /\ st.state = REFUNDED
    /\ st.deliveredAt > 0
    /\ last.op = "tick"

\* C3: the principal is paid out exactly once, by the step that enters the
\* terminal state and in no other: no principal has left in a non-terminal state;
\* in COMPLETE exactly the principal went to the seller in one transfer and none
\* to anybody else, in REFUNDED the same with the buyer.
C3_PrincipalOnce ==
    LET to(a) == tot.principalPaid[a]
    IN  /\ ~Terminal =>
            tot.principalXfers = 0 /\ \A a \in Callers : to(a) = 0
        /\ st.state = COMPLETE =>
            /\ tot.principalXfers = 1
            /\ to(params.seller) = Principal
            /\ \A a \in Callers \ {params.seller} : to(a) = 0
        /\ st.state = REFUNDED =>
            /\ tot.principalXfers = 1
            /\ to(params.buyer) = Principal
            /\ \A a \in Callers \ {params.buyer} : to(a) = 0

\* the arbiter resolved a dispute for the buyer, who received the principal
C3_Witness ==
    /\ last.op = "resolveDispute"
    /\ last.winner = params.buyer
    /\ st.state = REFUNDED
    /\ tot.principalPaid[Buyer] = Principal

\* C4: arbiterFeePaid never goes back to false and goes from false to true at
\* most once, the arbiter never receives more than arbiterFee as fee, and
\* running _payArbiterFee a second time changes nothing.
C4_FeeOnce ==
    /\ [][st.arbiterFeePaid => st'.arbiterFeePaid]_vars
    /\ [](/\ tot.feeFlips <= 1
          /\ tot.feePaid <= params.arbiterFee
          /\ LET c == BaseCall(Arb)
                 once == _payArbiterFee(Running(st, bal), params, c)
             IN  IsGa => _payArbiterFee(once, params, c) = once)

\* a settled gas-abstracted instance whose arbiter fee was paid
C4_Witness ==
    /\ IsGa
    /\ Terminal
    /\ st.arbiterFeePaid
    /\ tot.feeFlips = 1
    /\ tot.feePaid = params.arbiterFee

\* signed actions for the same signer, kind and nonce
SameAction(x, y) ==
    /\ x.signature.signer = y.signature.signer
    /\ x.signature.kind = y.signature.kind
    /\ x.nonce = y.nonce

\* C5: no nonce ever decreases; a signed action is never accepted when one of
\* the same signer, kind and nonce was accepted before; and once
\* _verifySignature has accepted a signed action, it rejects with InvalidNonce
\* every signed action of that signer, kind and nonce, whatever its expiry.
C5_NonceOnce ==
    /\ [][/\ \A k \in NonceKeys : st'.nonces[k] >= st.nonces[k]
          /\ accepted' # accepted =>
                \A y \in accepted : ~SameAction(y, last'.sub)]_vars
    /\ [](\A sig \in Signatures, d2 \in SigDeadlines :
            LET first == _verifySignature(Running(st, bal), sig.signer, sig.kind,
                                          sig.nonce, sig.deadline, sig)
                again == _verifySignature(first, sig.signer, sig.kind, sig.nonce, d2,
                                          [sig EXCEPT !.deadline = d2])
            IN  ~Failed(first) => again.err = "InvalidNonce")

\* two signed actions were accepted, so that some nonce is 1
C5_Witness ==
    /\ IsGa
    /\ Cardinality(accepted) >= 2
    /\ \E k \in NonceKeys : st.nonces[k] = 1

\* ---------------------------------------------------------------------------
\* Calls tried against the current state
\* ---------------------------------------------------------------------------

\* the function called op in the contract of the instance, applied to call c,
\* starting from machine m
RunOn(m, op, c) ==
    IF IsSimple
    THEN CASE op = "deposit" -> deposit(params, m, c)
           [] op = "markDelivered" -> markDelivered(params, m, c)
           [] op = "confirmDelivery" -> confirmDelivery(params, m, c)
           [] op = "refund" -> refund(params, m, c)
           [] op = "claimByTimeout" -> claimByTimeout(params, m, c)
           [] op = "claimRefundByTimeout" -> claimRefundByTimeout(params, m, c)
           [] op = "dispute" -> dispute(params, m, c)
           [] op = "resolveDispute" -> resolveDispute(params, m, c)
    ELSE CASE op = "deposit" -> deposit_ga(params, m, c)
           [] op = "metaMarkDelivered" -> metaMarkDelivered(params, m, c)
           [] op = "metaConfirmDelivery" -> metaConfirmDelivery(params, m, c)
           [] op = "metaRefund" -> metaRefund(params, m, c)
           [] op = "metaDispute" -> metaDispute(params, m, c)
           [] op = "resolveDispute" -> resolveDispute_ga(params, m, c)
           [] op = "claimByTimeout" -> claimByTimeout_ga(params, m, c)
           [] op = "claimRefundByTimeout" -> claimRefundByTimeout_ga(params, m, c)

\* the same as a transaction on the current state
Run(op, c) == RunOn(Pre, op, c)

\* what a caller hands to a meta function: one call when the modifiers turn
\* the caller or the state down, every submission otherwise
MetaAttempts(op, caller, signer, kind) ==
    LET c0 == [BaseCall(caller) EXCEPT !.signer = signer]
    IN  IF Run(op, c0).err \in ModifierErrors THEN {<<op, c0>>}
        ELSE {<<op, c>> : c \in RelayedCalls(caller, signer, kind)}

\* the calls the actions try, without the choice of gas price and rejections
Attempts ==
    IF IsSimple
    THEN UNION {
        {<<"deposit", [BaseCall(a) EXCEPT !.value = v]>> :
            a \in Callers, v \in DepositValues(params.amount)},
        {<<op, BaseCall(a)>> :
            op \in {"markDelivered", "confirmDelivery", "refund", "claimByTimeout",
                    "claimRefundByTimeout", "dispute"}, a \in Callers},
        {<<"resolveDispute", [BaseCall(a) EXCEPT !.winner = w]>> :
            a \in Callers, w \in Winners}}
    ELSE UNION {
        {<<"deposit", [BaseCall(a) EXCEPT !.value = v, !.gasPool = g]>> :
            a \in Callers, g \in GasPools,
            v \in {0} \cup {params.escrowAmount + params.arbiterFee + g2 : g2 \in GasPools}},
        UNION {MetaAttempts("metaMarkDelivered", a, params.seller, MARK_DELIVERED) :
                    a \in Callers},
        UNION {MetaAttempts("metaConfirmDelivery", a, params.buyer, CONFIRM_DELIVERY) :
                    a \in Callers},
        UNION {MetaAttempts("metaRefund", a, params.seller, REQUEST_REFUND) :
                    a \in Callers},
        UNION {MetaAttempts("metaDispute", a, s, RAISE_DISPUTE) :
                    a \in Callers, s \in Signers},
        {<<"resolveDispute", [BaseCall(a) EXCEPT !.winner = w]>> :
            a \in Callers, w \in Winners},
        {<<op, BaseCall(a)>> :
            op \in {"claimByTimeout", "claimRefundByTimeout"}, a \in Callers}}

\* the call left no effect: storage and balance as before, no transfer, no event
NoEffect(m) ==
    LET out == Outcome(Pre, m)
    IN  out.st = st /\ out.bal = bal /\ out.log = <<>>

\* the relayer handing in a signed action with given nonce and expiry
Relay(signer, signature, nonce, deadline) ==
    [BaseCall(params.arbiter) EXCEPT !.signer = signer, !.signature = signature,
                                     !.nonce = nonce, !.deadline = deadline]

\* the relayer handing in what signer has signed for the current nonce of kind,
\* with the latest expiry
ValidRelay(signer, kind) ==
    LET n == st.nonces[<<signer, kind>>]
    IN  Relay(signer, Expected(signer, kind, n, MaxTime), n, MaxTime)

\* an accepted submission handed in again by the relayer
Resubmit(sub) == Relay(sub.signer, sub.signature, sub.nonce, sub.deadline)

\* C6 as stated: after a signed action was accepted, handing the identical
\* (signature, nonce, expiry) to the same meta function fails with InvalidNonce.
C6_Original ==
    \A sub \in accepted : Run(sub.op, Resubmit(sub)).err = "InvalidNonce"

\* C6: after a signed action was accepted, handing the identical (signature,
\* nonce, expiry) to the same meta function by the relayer fails and changes
\* nothing; the error is InvalidState, because the accepted action has left the
\* state the function requires and inState is checked first; the nonce of the
\* signer and kind has moved on as well.
C6_ReplayRejected ==
    \A sub \in accepted : \A c \in WithGas(Resubmit(sub)) :
        LET m == Run(sub.op, c)
        IN  /\ m.err = "InvalidState"
            /\ NoEffect(m)
            /\ st.nonces[<<sub.signature.signer, sub.signature.kind>>] = sub.nonce + 1

\* a delivery and a dispute were both accepted as signed actions
C6_Witness ==
    /\ \E sub \in accepted : sub.op = "metaMarkDelivered"
    /\ \E sub \in accepted : sub.op = "metaDispute"
    /\ \A sub \in accepted : Failed(Run(sub.op, Resubmit(sub)))

\* the direct action and the timeout of the current state, tried now
MarkPasses ==
    IF IsSimple THEN ~Failed(Run("markDelivered", BaseCall(params.seller)))
    ELSE ~Failed(Run("metaMarkDelivered", ValidRelay(params.seller, MARK_DELIVERED)))
RefundTimeoutPasses == ~Failed(Run("claimRefundByTimeout", BaseCall(params.buyer)))
ConfirmPasses ==
    IF IsSimple THEN ~Failed(Run("confirmDelivery", BaseCall(params.buyer)))
    ELSE ~Failed(Run("metaConfirmDelivery", ValidRelay(params.buyer, CONFIRM_DELIVERY)))
ReleaseTimeoutPasses == ~Failed(Run("claimByTimeout", BaseCall(Other)))

\* C7 as stated: in FUNDED exactly one of marking delivery and the refund
\* timeout is accepted at any instant, and in DELIVERED exactly one of the
\* confirmation and the release timeout.
C7_Original ==
    /\ st.state = FUNDED => (MarkPasses # RefundTimeoutPasses)
    /\ st.state = DELIVERED => (ConfirmPasses # ReleaseTimeoutPasses)

\* the errors of the guards the functions and their modifiers check
GuardErrors ==
    {"OnlyBuyer", "OnlySeller", "OnlyArbiter", "OnlyRelayer", "OnlyBuyerOrSeller",
     "InvalidState", "IncorrectAmount", "DeliveryDeadlinePassed",
     "DeliveryDeadlineNotPassed", "ReviewPeriodEnded", "ReviewPeriodNotEnded",
     "NoArbiterSet", "InvalidWinner", "SignatureExpired", "InvalidNonce",
     "InvalidSignature", "InvalidSigner", "ECDSAInvalidSignature"}

\* the errors the calls tried against the current state end with
ErrorsNow == {Run(a[1], a[2]).err : a \in Attempts}

\* C8: an operation that fails a guard leaves the instance exactly as it was:
\* state, deliveredAt, gasPoolBalance, arbiterFeePaid, every nonce and the held
\* balance are unchanged and no transfer takes effect. A step in which no call
\* completed changes neither storage, balance nor what was paid; a call tried
\* against the current state that ends with a guard's error has no effect.
C8_GuardFailureAtomic ==
    /\ [][last' = last => st' = st /\ bal' = bal /\ tot' = tot /\ accepted' = accepted]_vars
    /\ [](\A a \in Attempts :
            LET m == Run(a[1], a[2])
            IN  m.err \in GuardErrors => NoEffect(m))

\* a delivered gas-abstracted instance on which calls fail for the caller, the
\* state, the expiry, the nonce, the signature and the time
C8_Witness ==
    /\ IsGa /\ st.state = DELIVERED /\ bal > 0
    /\ {"OnlyRelayer", "InvalidState", "SignatureExpired", "InvalidNonce",
        "InvalidSignature", "ReviewPeriodNotEnded"} \subseteq ErrorsNow

\* the recipients of the transfers in a log
Recipients(log) == {log[i].who : i \in {j \in 1..Len(log) : IsXfer(log[j])}}

\* C9: when a recipient rejects a transfer an operation makes (reimbursement
\* of the relayer, fee of the arbiter, refund of the gas pool, payout of the
\* principal), the whole operation is undone: state, nonces, arbiterFeePaid,
\* gasPoolBalance and balance are as before and no earlier transfer of the
\* operation takes effect.
C9_TransferFailureAborts ==
    \A a \in Attempts :
        Run(a[1], a[2]).err \notin GuardErrors =>
            \A g \in GasSpent, gp \in GasPrices :
                LET c0 == [a[2] EXCEPT !.gasSpent = g, !.gasPrice = gp]
                    m0 == Run(a[1], c0)
                IN  ~Failed(m0) =>
                        \A r \in {x \in RejectSets : Recipients(m0.log) \cap x # {}} :
                            LET m == Run(a[1], [c0 EXCEPT !.rej = r])
                            IN  /\ m.err \in {"FailedCall", "TransferFailed"}
                                /\ NoEffect(m)

\* a confirmation whose reimbursement and fee were sent and whose payout the
\* seller rejects
C9_Witness ==
    /\ IsGa /\ st.state = DELIVERED /\ params.arbiterFee > 0
    /\ \E c \in WithGas(ValidRelay(params.buyer, CONFIRM_DELIVERY)) :
         LET m == Run("metaConfirmDelivery", [c EXCEPT !.rej = {params.seller}])
         IN  /\ m.err = "FailedCall"
             /\ m.st.arbiterFeePaid /\ m.st.state = COMPLETE
             /\ m.st.gasPoolBalance < st.gasPoolBalance
             /\ m.bal < bal
             /\ NoEffect(m)

\* the caller a function of the simple variant requires, and its error
RequiredCaller ==
    [deposit |-> <<{params.buyer}, "OnlyBuyer", AWAITING_PAYMENT>>,
     confirmDelivery |-> <<{params.buyer}, "OnlyBuyer", DELIVERED>>,
     claimRefundByTimeout |-> <<{params.buyer}, "OnlyBuyer", FUNDED>>,
     markDelivered |-> <<{params.seller}, "OnlySeller", FUNDED>>,
     refund |-> <<{params.seller}, "OnlySeller", FUNDED>>,
     dispute |-> <<{params.buyer, params.seller}, "OnlyBuyerOrSeller", DELIVERED>>,
     resolveDispute |-> <<{params.arbiter}, "OnlyArbiter", DISPUTED>>]

\* C10: in the simple variant deposit, confirmDelivery and claimRefundByTimeout
\* succeed only for the buyer, markDelivered and refund only for the seller,
\* dispute only for the buyer or the seller, resolveDispute only for the
\* arbiter, and claimByTimeout does not depend on the caller; a call by anyone
\* else in the state the function requires fails with the matching error and
\* changes nothing.
C10_SimpleAuthorization ==
    IsSimple =>
        /\ \A a \in Attempts :
             LET m == Run(a[1], a[2])
             IN  IF a[1] = "claimByTimeout"
                 THEN \A other \in Callers :
                        Run(a[1], [a[2] EXCEPT !.caller = other]).err = m.err
                 ELSE LET req == RequiredCaller[a[1]]
                      IN  /\ ~Failed(m) => a[2].caller \in req[1]
                          /\ (st.state = req[3] /\ a[2].caller \notin req[1]) =>
                                m.err = req[2] /\ NoEffect(m)

\* a delivered simple instance: the seller cannot confirm, a stranger cannot
\* dispute, the buyer and the seller can
C10_Witness ==
    /\ IsSimple /\ st.state = DELIVERED
    /\ Run("confirmDelivery", BaseCall(params.seller)).err = "OnlyBuyer"
    /\ Run("dispute", BaseCall(Other)).err = "OnlyBuyerOrSeller"
    /\ ~Failed(Run("dispute", BaseCall(params.seller)))
    /\ ~Failed(Run("confirmDelivery", BaseCall(params.buyer)))

\* ---------------------------------------------------------------------------
\* Relayed actions: who authorizes what
\* ---------------------------------------------------------------------------

MetaOps == {"metaMarkDelivered", "metaConfirmDelivery", "metaRefund", "metaDispute"}

\* the action kind a meta function verifies
KindOf ==
    [metaMarkDelivered |-> MARK_DELIVERED, metaConfirmDelivery |-> CONFIRM_DELIVERY,
     metaRefund |-> REQUEST_REFUND, metaDispute |-> RAISE_DISPUTE]

\* the principals whose signature a meta function takes
SignersOf ==
    [metaMarkDelivered |-> {params.seller}, metaConfirmDelivery |-> {params.buyer},
     metaRefund |-> {params.seller}, metaDispute |-> {params.buyer, params.seller}]

\* the signed action handed in with a call of a meta function is what a
\* principal of the function signed for this instance, the kind of the function,
\* the nonce stored before the call and an expiry not before time t
Authorized(op, signer, signature, deadline, nonces, t) ==
    /\ signer \in SignersOf[op]
    /\ signature = Expected(signer, KindOf[op], nonces[<<signer, KindOf[op]>>], deadline)
    /\ deadline >= t

\* the signer a meta function checks: the named one for metaDispute
CheckedSigner(op, c) == IF op = "metaDispute" THEN c.signer ELSE CHOOSE x \in SignersOf[op] : TRUE

\* C11: in the gas-abstracted variant a meta operation takes effect only if the
\* caller is the relayer (the arbiter) and the signature was made by the
\* required principal (seller: metaMarkDelivered, metaRefund; buyer:
\* metaConfirmDelivery; the named buyer or seller: metaDispute) over the kind,
\* the current nonce and an unexpired expiry. FUNDED->DELIVERED, FUNDED->REFUNDED
\* before the delivery deadline has passed, DELIVERED->COMPLETE within the review
\* window and DELIVERED->DISPUTED happen only by such a call.
C11_SignedByPrincipal ==
    /\ [][IsGa =>
            /\ (last' # last /\ last'.op \in MetaOps) =>
                  /\ last'.caller = params.arbiter
                  /\ last'.sub.nonce = st.nonces[<<last'.sub.signer, KindOf[last'.op]>>]
                  /\ Authorized(last'.op, last'.sub.signer, last'.sub.signature,
                                last'.sub.deadline, st.nonces, now)
            /\ (\/ st.state = FUNDED /\ st'.state = DELIVERED
                \/ st.state = DELIVERED /\ st'.state = DISPUTED
                \/ st.state = FUNDED /\ st'.state = REFUNDED
                     /\ now <= params.deliveryDeadline
                \/ st.state = DELIVERED /\ st'.state = COMPLETE
                     /\ now <= st.deliveredAt + params.reviewPeriod)
               => last' # last /\ last'.op \in MetaOps]_vars
    /\ [](IsGa => \A a \in Attempts :
            (a[1] \in MetaOps /\ ~Failed(Run(a[1], a[2]))) =>
                /\ a[2].caller = params.arbiter
                /\ a[2].nonce = st.nonces[<<CheckedSigner(a[1], a[2]), KindOf[a[1]]>>]
                /\ Authorized(a[1], CheckedSigner(a[1], a[2]), a[2].signature,
                              a[2].deadline, st.nonces, now))

\* the seller's signed refund request was relayed and accepted before the
\* delivery deadline, and the buyer's signature over it would not have done
C11_Witness ==
    /\ IsGa /\ last.op = "metaRefund" /\ st.state = REFUNDED
    /\ last.caller = params.arbiter
    /\ last.sub.signature.signer = params.seller
    /\ now <= params.deliveryDeadline

\* the signature a signer made for the current nonce of a kind under another
\* instance's domain
ForOtherInstance(signer, kind) ==
    [Expected(signer, kind, st.nonces[<<signer, kind>>], MaxTime) EXCEPT !.inst = ThatInstance]

\* C12: a signature is bound to one instance and one action kind: what was
\* signed for another instance with the same participants, or for another kind
\* (the seller's MARK_DELIVERED handed to metaRefund, and the reverse), is not
\* accepted.
C12_BoundToInstanceAndKind ==
    IsGa =>
        /\ \A a \in Attempts :
            (a[1] \in MetaOps /\ ~Failed(Run(a[1], a[2]))) =>
                /\ a[2].signature.inst = ThisInstance
                /\ a[2].signature.kind = KindOf[a[1]]
        /\ \A op \in MetaOps : \A signer \in SignersOf[op] :
            LET n == st.nonces[<<signer, KindOf[op]>>]
                there == Run(op, Relay(signer, ForOtherInstance(signer, KindOf[op]), n, MaxTime))
            IN  /\ Failed(there)
                /\ ~Failed(Run(op, ValidRelay(signer, KindOf[op]))) =>
                      there.err = "InvalidSignature"
                /\ \A kind \in ActionType \ {KindOf[op]} :
                     LET other == Run(op, Relay(signer, Expected(signer, kind, n, MaxTime),
                                                n, MaxTime))
                     IN  /\ Failed(other)
                         /\ ~Failed(Run(op, ValidRelay(signer, KindOf[op]))) =>
                               other.err = "InvalidSignature"

\* a funded instance where the seller's signed refund request would be accepted
\* and the seller's signature for marking delivery, handed to metaRefund, or a
\* refund request signed for the other instance, is turned down
C12_Witness ==
    /\ IsGa /\ st.state = FUNDED
    /\ ~Failed(Run("metaRefund", ValidRelay(params.seller, REQUEST_REFUND)))
    /\ Run("metaRefund",
           Relay(params.seller,
                 Expected(params.seller, MARK_DELIVERED,
                          st.nonces[<<params.seller, REQUEST_REFUND>>], MaxTime),
                 st.nonces[<<params.seller, REQUEST_REFUND>>], MaxTime)).err
         = "InvalidSignature"
    /\ Run("metaRefund",
           Relay(params.seller, ForOtherInstance(params.seller, REQUEST_REFUND),
                 st.nonces[<<params.seller, REQUEST_REFUND>>], MaxTime)).err
         = "InvalidSignature"

\* ---------------------------------------------------------------------------
\* The gas pool
\* ---------------------------------------------------------------------------

\* the functions that reimburse their caller
ReimbursingOps == MetaOps \cup {"resolveDispute"}

\* the gas prices and gas usages of a transaction: the fee gasUsed * gasPrice
\* is paid from the balance of its sender, so the product fits the word
GasChoices ==
    {x \in [gasSpent : GasSpent, gasPrice : GasPrices] :
        ~AddOverflows(x.gasSpent, BaseTxCost)
        /\ ~MulOverflows(x.gasSpent + BaseTxCost, x.gasPrice)}

\* C13: the reimbursement one action pays to the relayer equals
\* min(min(gasUsed + 21000, maxGasPerAction) * min(gasPrice, maxGasPrice),
\* gasPoolBalance before the action), for every gas price and gas usage and
\* every value of the caps; it exceeds neither the pool nor maxGasPerAction *
\* maxGasPrice, and whether the action fails does not depend on the gas.
C13_Reimbursement ==
    IsGa => \A a \in Attempts :
        (a[1] \in ReimbursingOps /\ Run(a[1], a[2]).err \notin GuardErrors) =>
            \A x \in GasChoices :
                LET m == Run(a[1], [a[2] EXCEPT !.gasSpent = x.gasSpent,
                                                !.gasPrice = x.gasPrice])
                    capped == Min(x.gasSpent + BaseTxCost, params.maxGasPerAction)
                              * Min(x.gasPrice, params.maxGasPrice)
                    paid == XferOf(m.log, "gas")
                IN  /\ Failed(m) = Failed(Run(a[1], a[2]))
                    /\ ~Failed(m) =>
                        /\ paid = Min(capped, st.gasPoolBalance)
                        /\ paid = XferTo(m.log, a[2].caller)
                                  - (IF a[2].caller = params.arbiter
                                     THEN XferOf(m.log, "fee") ELSE 0)
                                  - PrincipalTo(m.log, a[2].caller)
                        /\ paid <= st.gasPoolBalance
                        /\ paid <= params.maxGasPerAction * params.maxGasPrice

\* relayed calls were reimbursed below the capped cost because the pool ran
\* out, and at the capped cost
C13_Witness ==
    /\ IsGa /\ last.op \in MetaOps
    /\ tot.gasPaid = tot.poolDeposited /\ tot.gasPaid > 1
    /\ XferOf(last.log, "gas") > 0
    /\ XferOf(last.log, "gas")
         < Min((CHOOSE g \in GasSpent : TRUE) + BaseTxCost, params.maxGasPerAction) * params.maxGasPrice

\* C14: in the gas-abstracted variant 0 <= gasPoolBalance <= the amount
\* deposited as gas pool in every reachable state, gasPoolBalance never
\* increases after funding (the pool deposited is what the buyer sent beyond
\* principal and fee), and in a terminal state the reimbursements of the
\* relayer plus the leftover returned to the buyer equal the amount deposited
\* as gas pool.
C14_GasPoolBounded ==
    /\ [][(IsGa /\ st.state # AWAITING_PAYMENT) =>
            st'.gasPoolBalance <= st.gasPoolBalance]_vars
    /\ [](IsGa =>
            /\ 0 <= st.gasPoolBalance
            /\ st.gasPoolBalance <= tot.poolDeposited
            /\ st.state # AWAITING_PAYMENT =>
                  tot.poolDeposited = tot.deposited - params.escrowAmount - params.arbiterFee
            /\ Terminal => tot.gasPaid + tot.poolPaid = tot.poolDeposited)

\* settled after the relayer was reimbursed and the buyer got a leftover
C14_Witness ==
    /\ IsGa /\ Terminal
    /\ tot.gasPaid > 0 /\ tot.poolPaid > 0
    /\ tot.gasPaid + tot.poolPaid = tot.poolDeposited

\* the transfers of a log that carry leftover pool to the buyer
PoolXfers(log) ==
    Total(log, LAMBDA e : IF IsXfer(e) /\ e.what \in {"pool", "principal+pool"}
                             /\ e.amt - e.pr > 0 THEN 1 ELSE 0)

\* C15: in the gas-abstracted variant the operation that settles (enters
\* COMPLETE or REFUNDED) transfers the whole leftover gas pool, what the pool
\* holds after the reimbursement of that operation, to the buyer in one
\* transfer; gasPoolBalance is 0 in every terminal state and nothing is paid
\* from a terminal state, so the leftover is never paid twice.
C15_LeftoverSweptOnce ==
    /\ [][IsGa =>
            /\ (~Terminal /\ Terminal') =>
                 /\ PoolOut(last'.log) = st.gasPoolBalance - XferOf(last'.log, "gas")
                 /\ PoolOut(last'.log) = tot'.poolPaid
                 /\ PoolXfers(last'.log) = (IF PoolOut(last'.log) > 0 THEN 1 ELSE 0)
                 /\ \A i \in 1..Len(last'.log) :
                        (IsXfer(last'.log[i]) /\ last'.log[i].amt > last'.log[i].pr
                         /\ last'.log[i].what \in {"pool", "principal+pool"})
                            => last'.log[i].who = params.buyer
            /\ ~(Terminal') => tot'.poolPaid = 0
            /\ Terminal => tot' = tot /\ bal' = bal]_vars
    /\ []((IsGa /\ Terminal) => st.gasPoolBalance = 0)

\* a confirmation settled, reimbursed the relayer and swept a leftover
C15_Witness ==
    /\ IsGa /\ st.state = COMPLETE /\ last.op = "metaConfirmDelivery"
    /\ XferOf(last.log, "gas") > 0
    /\ PoolOut(last.log) > 0 /\ PoolXfers(last.log) = 1
    /\ st.gasPoolBalance = 0

\* ---------------------------------------------------------------------------
\* The arbiter fee
\* ---------------------------------------------------------------------------

\* the number of fee transfers in a log
FeeXfers(log) == Total(log, LAMBDA e : IF IsXfer(e) /\ e.what = "fee" THEN 1 ELSE 0)

SettlingOps ==
    {"metaConfirmDelivery", "metaRefund", "claimByTimeout", "claimRefundByTimeout",
     "resolveDispute"}

\* C16: in the gas-abstracted variant every settlement path pays the arbiter
\* exactly arbiterFee exactly once: the operation that settles makes one fee
\* transfer of arbiterFee to the arbiter (none when the fee is 0), in every
\* terminal state the arbiter has received arbiterFee in fee payments, and in
\* every other state none.
C16_FeeOnEverySettlement ==
    /\ [][IsGa =>
            /\ (~Terminal /\ Terminal') =>
                 /\ last'.op \in SettlingOps
                 /\ XferOf(last'.log, "fee") = params.arbiterFee
                 /\ FeeXfers(last'.log) = (IF params.arbiterFee > 0 THEN 1 ELSE 0)
                 /\ \A i \in 1..Len(last'.log) :
                        (IsXfer(last'.log[i]) /\ last'.log[i].what = "fee")
                            => last'.log[i].who = params.arbiter
            /\ ~(~Terminal /\ Terminal') => tot'.feePaid = tot.feePaid]_vars
    /\ [](IsGa =>
            /\ Terminal => tot.feePaid = params.arbiterFee
            /\ ~Terminal => tot.feePaid = 0)

\* the arbiter resolved a dispute for the buyer and was paid the fee in it
C16_Witness ==
    /\ IsGa /\ st.state = REFUNDED /\ last.op = "resolveDispute"
    /\ last.winner = params.buyer
    /\ params.arbiterFee > 0
    /\ XferOf(last.log, "fee") = params.arbiterFee
    /\ tot.feePaid = params.arbiterFee

\* C17 as stated: after any settlement arbiterFeePaid reads true, for every fee
\* accepted at creation.
C17_Original == (IsGa /\ Terminal) => st.arbiterFeePaid

\* C17: in the gas-abstracted variant, after any settlement (COMPLETE or
\* REFUNDED) arbiterFeePaid reads true exactly when arbiterFee > 0; with
\* arbiterFee = 0, which the constructor accepts, _payArbiterFee returns before
\* the latch is written and arbiterFeePaid is false for good. Before the
\* settlement it reads false.
C17_FeePaidFlag ==
    IsGa =>
        /\ Terminal => (st.arbiterFeePaid <=> params.arbiterFee > 0)
        /\ ~Terminal => ~st.arbiterFeePaid

\* settled without a fee: the flag is still false
C17_Witness ==
    /\ IsGa /\ Terminal /\ params.arbiterFee = 0 /\ ~st.arbiterFeePaid
    /\ last.op \in SettlingOps

\* ---------------------------------------------------------------------------
\* Timeouts and progress
\* ---------------------------------------------------------------------------

Funded == st.state \in {FUNDED, DELIVERED, DISPUTED}

\* a timeout claim made at time t by the caller it takes, every recipient
\* accepting, goes through
TimeoutClaimPasses(t) ==
    \/ ~Failed(Run("claimByTimeout", [BaseCall(Other) EXCEPT !.now = t]))
    \/ ~Failed(Run("claimRefundByTimeout", [BaseCall(params.buyer) EXCEPT !.now = t]))

\* C18 as stated: for every funded state that is not terminal (FUNDED,
\* DELIVERED, DISPUTED) there is a time from which a timeout claim is possible,
\* so that the instance is settled by timeout claims alone.
C18_Original == Funded => \E t \in now..MaxTime : TimeoutClaimPasses(t)

\* ---------------------------------------------------------------------------
\* Views on the review deadline (the same in both contracts)
\* ---------------------------------------------------------------------------

\* the result of a view: a value, or the error it reverts with
Returned(v) == [err |-> NoError, val |-> v]
Reverted(e) == [err |-> e, val |-> 0]

reviewDeadline(p, s) ==
    IF s.deliveredAt = 0 THEN Returned(0)
    ELSE IF AddOverflows(s.deliveredAt, p.reviewPeriod) THEN Reverted("Panic")
    ELSE Returned(s.deliveredAt + p.reviewPeriod)

canClaimByTimeout(p, s, t) ==
    IF s.state # DELIVERED THEN Returned(FALSE)
    ELSE IF AddOverflows(s.deliveredAt, p.reviewPeriod) THEN Reverted("Panic")
    ELSE Returned(t > s.deliveredAt + p.reviewPeriod)

\* the calls of the current variant whose guard adds deliveredAt and reviewPeriod
ReviewGuarded ==
    IF IsSimple
    THEN {<<"confirmDelivery", BaseCall(params.buyer)>>,
          <<"dispute", BaseCall(params.buyer)>>, <<"dispute", BaseCall(params.seller)>>,
          <<"claimByTimeout", BaseCall(Other)>>}
    ELSE {<<"metaConfirmDelivery", ValidRelay(params.buyer, CONFIRM_DELIVERY)>>,
          <<"metaDispute", ValidRelay(params.buyer, RAISE_DISPUTE)>>,
          <<"metaDispute", ValidRelay(params.seller, RAISE_DISPUTE)>>,
          <<"claimByTimeout", BaseCall(Other)>>}

\* C19 as stated: for every parameter set the constructor accepts the sum
\* deliveredAt + reviewPeriod stays within the unsigned range, so in DELIVERED
\* no call of confirmDelivery, dispute, claimByTimeout, reviewDeadline or
\* canClaimByTimeout fails because of arithmetic overflow.
C19_Original ==
    st.state = DELIVERED =>
        /\ st.deliveredAt + params.reviewPeriod <= UintMax
        /\ \A a \in ReviewGuarded : Run(a[1], a[2]).err # "Panic"
        /\ reviewDeadline(params, st).err # "Panic"
        /\ canClaimByTimeout(params, st, now).err # "Panic"

\* ---------------------------------------------------------------------------
\* Order of storage writes and transfers within one call
\* ---------------------------------------------------------------------------

\* the recipient of the first transfer in a log that has one
FirstRecipient(log) ==
    log[CHOOSE i \in 1..Len(log) :
            IsXfer(log[i]) /\ \A j \in 1..(i - 1) : ~IsXfer(log[j])].who

\* Storage as it is when a call makes its first transfer: the call is run with
\* the recipient of that transfer rejecting it, which stops the call there.
StorageAtFirstTransfer(op, c) ==
    LET m0 == Run(op, c)
    IN  Run(op, [c EXCEPT !.rej = {FirstRecipient(m0.log)}]).st

\* the calls tried against the current state, with each gas price and usage,
\* that succeed and transfer value
TransferringCalls ==
    {b \in UNION {{<<a[1], [a[2] EXCEPT !.gasSpent = x.gasSpent, !.gasPrice = x.gasPrice]>> :
                        x \in GasChoices} :
                   a \in {a0 \in Attempts : Run(a0[1], a0[2]).err \notin GuardErrors}} :
        /\ ~Failed(Run(b[1], b[2]))
        /\ Recipients(Run(b[1], b[2]).log) # {}}

\* C20 as stated: in every operation that transfers value, the state
\* transition and all bookkeeping writes of the operation (state,
\* gasPoolBalance, arbiterFeePaid, nonce) are completed before its first
\* outgoing transfer is made.
C20_Original ==
    \A b \in TransferringCalls :
        StorageAtFirstTransfer(b[1], b[2]) = Run(b[1], b[2]).st

\* ---------------------------------------------------------------------------
\* Calls made from the callback of a recipient
\* ---------------------------------------------------------------------------

\* the first transfer to recipient r in a log that has one
FirstXferTo(log, r) ==
    log[CHOOSE i \in 1..Len(log) :
            /\ IsXfer(log[i]) /\ log[i].who = r
            /\ \A j \in 1..(i - 1) : ~(IsXfer(log[j]) /\ log[j].who = r)]

\* The instance while call c of op is in its first transfer to r and r's
\* callback runs: storage as written so far, the lock as taken, the amount gone.
\* (The call is run with r rejecting, which stops it at that transfer.)
DuringTransfer(op, c, r) ==
    LET stopped == Run(op, [c EXCEPT !.rej = {r}])
    IN  [stopped EXCEPT !.err = NoError, !.log = <<>>,
                        !.bal = @ - FirstXferTo(Run(op, c).log, r).amt]

\* what a callback may call on an instance in storage s: every function, by
\* every caller, with the signed actions that fit the nonces of s
ReentrantCalls(s) ==
    LET Signed(a, signer, kind) ==
            [BaseCall(a) EXCEPT !.signer = signer, !.nonce = s.nonces[<<signer, kind>>],
                !.deadline = MaxTime,
                !.signature = Expected(signer, kind, s.nonces[<<signer, kind>>], MaxTime)]
    IN  UNION {
        {<<"deposit", [BaseCall(a) EXCEPT !.value = v, !.gasPool = g]>> :
            a \in Callers, g \in {0, 1},
            v \in {0} \cup {params.amount + params.escrowAmount + params.arbiterFee + g2 :
                            g2 \in {0, 1}}},
        {<<op, BaseCall(a)>> :
            op \in (IF IsSimple
                    THEN {"markDelivered", "confirmDelivery", "refund", "dispute"}
                    ELSE {}) \cup {"claimByTimeout", "claimRefundByTimeout"},
            a \in Callers},
        {<<"resolveDispute", [BaseCall(a) EXCEPT !.winner = w]>> :
            a \in Callers, w \in {params.buyer, params.seller}},
        IF IsSimple THEN {}
        ELSE UNION {{<<op, Signed(a, signer, KindOf[op])>> : signer \in SignersOf[op]} :
                        op \in MetaOps, a \in Callers}}

\* C21: while an operation is in the middle of an outgoing transfer, no call
\* from the callback of the recipient to a mutating function of the instance
\* succeeds, the functions without a reentrancy lock (deposit; markDelivered and
\* dispute of the simple variant) included.
C21_NoReentrantSuccess ==
    \A b \in TransferringCalls : \A r \in Recipients(Run(b[1], b[2]).log) :
        LET mid == DuringTransfer(b[1], b[2], r)
        IN  \A x \in ReentrantCalls(mid.st) : Failed(RunOn(mid, x[1], x[2]))

\* a delivery is being confirmed and the seller is being paid: the lock turns
\* down a timeout claim, the state turns down markDelivered and dispute
C21_Witness ==
    /\ IsSimple /\ st.state = DELIVERED /\ params.arbiter # Zero
    /\ ~Failed(Run("confirmDelivery", BaseCall(params.buyer)))
    /\ LET mid == DuringTransfer("confirmDelivery", BaseCall(params.buyer), params.seller)
       IN  /\ mid.st.state = COMPLETE /\ mid.entered /\ mid.bal = 0
           /\ RunOn(mid, "claimByTimeout", BaseCall(params.seller)).err
                = "ReentrancyGuardReentrantCall"
           /\ RunOn(mid, "markDelivered", BaseCall(params.seller)).err = "InvalidState"
           /\ RunOn(mid, "dispute", BaseCall(params.seller)).err = "InvalidState"

\* ---------------------------------------------------------------------------
\* The factory
\* ---------------------------------------------------------------------------

\* the parameters the instance at hand was created with
CreationArgs ==
    [buyer |-> params.buyer, seller |-> params.seller, arbiter |-> params.arbiter,
     amount |-> params.escrowAmount, deliveryDeadline |-> params.deliveryDeadline,
     reviewPeriod |-> params.reviewPeriod, maxGasPrice |-> params.maxGasPrice,
     maxGasPerAction |-> params.maxGasPerAction, arbiterFee |-> params.arbiterFee]

\* a call of createEscrow at creation time
FactoryCall(caller, value) == [caller |-> caller, value |-> value, now |-> CreationTime]

\* the values tried with a creation whose principal, pool and fee sum up to sum
FactoryValues(sum) == {0, sum - 1, sum, sum + 1}

\* C22 as stated: with otherwise valid parameters createEscrow succeeds if and
\* only if the value sent equals principal + gas pool + arbiter fee, for every
\* gas pool >= 0 and every fee >= 0.
C22_Original ==
    IsGa => \A g \in GasPools, caller \in Callers :
        \A v \in UNION {FactoryValues(params.escrowAmount + g2 + params.arbiterFee) :
                            g2 \in GasPools} :
            ~Failed(createEscrow(CreationArgs, g, FactoryCall(caller, v)))
                <=> v = params.escrowAmount + g + params.arbiterFee

\* C22: with otherwise valid parameters createEscrow succeeds if and only if
\* the value sent equals principal + gas pool + arbiter fee and the gas pool
\* is positive, for every fee >= 0: a creation with gas pool 0 is rejected by
\* the constructor ("Must include gas pool"), another value by the factory
\* ("Incorrect payment"). On success the new instance has buyer = caller, is
\* FUNDED, has gasPoolBalance = the stated gas pool and holds the value sent.
C22_FactoryCreates ==
    IsGa => \A g \in GasPools, caller \in Callers :
        \A v \in UNION {FactoryValues(params.escrowAmount + g2 + params.arbiterFee) :
                            g2 \in GasPools} :
            LET m == createEscrow(CreationArgs, g, FactoryCall(caller, v))
                sum == params.escrowAmount + g + params.arbiterFee
            IN  /\ ~Failed(m) <=> (v = sum /\ g > 0)
                /\ v # sum => m.err = "Incorrect payment"
                /\ (v = sum /\ g = 0) => m.err = "Must include gas pool"
                /\ ~Failed(m) =>
                     /\ m.st.state = FUNDED
                     /\ m.st.gasPoolBalance = g
                     /\ m.bal = v
                     /\ m.log[1] = Event("Deposited", caller, params.escrowAmount)
                     /\ m.st = [EmptyStorage EXCEPT !.state = FUNDED, !.gasPoolBalance = g]

\* a freshly funded instance is what the factory makes for its buyer with the
\* pool it holds, and the factory makes none for the same buyer without a pool
C22_Witness ==
    /\ IsGa /\ last.op = "constructor" /\ st.state = FUNDED
    /\ LET m == createEscrow(CreationArgs, st.gasPoolBalance,
                             FactoryCall(params.buyer, bal))
       IN  ~Failed(m) /\ m.st = st /\ m.bal = bal
    /\ createEscrow(CreationArgs, 0,
                    FactoryCall(params.buyer, params.escrowAmount + params.arbiterFee)).err
         = "Must include gas pool"

\* ---------------------------------------------------------------------------
\* deposit
\* ---------------------------------------------------------------------------

\* the gas pools declared with a deposit: those of the model and the largest
\* unsigned value
DeclaredPools == IF IsSimple THEN {0} ELSE GasPools \cup {UintMax}

\* the sum a deposit declaring gas pool g has to bring
RequiredSum(g) ==
    IF IsSimple THEN params.amount ELSE params.escrowAmount + params.arbiterFee + g

\* the deposits tried: every caller, every declared pool, the values around the
\* sums that fit the word
DepositCalls ==
    {[BaseCall(a) EXCEPT !.value = v, !.gasPool = g] :
        a \in Callers, g \in DeclaredPools,
        v \in {x \in UNION {DepositValues(RequiredSum(g2)) : g2 \in DeclaredPools} :
                    x >= 0 /\ x <= UintMax}}

\* C23 as stated: deposit succeeds only for the buyer in AWAITING_PAYMENT with
\* exactly the required sum, and any other value fails with IncorrectAmount.
C23_Original ==
    \A c \in DepositCalls :
        LET m == Run("deposit", c)
        IN  /\ ~Failed(m) =>
                 c.caller = params.buyer /\ st.state = AWAITING_PAYMENT
                 /\ c.value = RequiredSum(c.gasPool)
            /\ (c.caller = params.buyer /\ st.state = AWAITING_PAYMENT
                /\ c.value # RequiredSum(c.gasPool)) => m.err = "IncorrectAmount"

\* C23: deposit succeeds exactly when called by the buyer in AWAITING_PAYMENT with
\* a value equal to the required sum (the principal; principal + arbiterFee +
\* the declared gas pool in the gas-abstracted variant); the state becomes
\* FUNDED, gasPoolBalance the declared gas pool. Another value from the buyer
\* fails with IncorrectAmount, except that a declared gas pool with which the
\* required sum exceeds the unsigned range fails with an arithmetic panic; the
\* state stays AWAITING_PAYMENT. In any other state every deposit fails.
C23_Deposit ==
    \A c \in DepositCalls :
        LET m == Run("deposit", c)
            fits == RequiredSum(c.gasPool) <= UintMax
            due == c.caller = params.buyer /\ st.state = AWAITING_PAYMENT
        IN  /\ ~Failed(m) <=> (due /\ c.value = RequiredSum(c.gasPool))
            /\ ~Failed(m) =>
                 /\ m.st = [st EXCEPT !.state = FUNDED, !.gasPoolBalance = c.gasPool]
                 /\ m.bal = bal + c.value
            /\ (due /\ fits /\ c.value # RequiredSum(c.gasPool)) =>
                 m.err = "IncorrectAmount" /\ NoEffect(m)
            /\ (due /\ ~fits) => m.err = "Panic" /\ NoEffect(m)
            /\ st.state # AWAITING_PAYMENT => m.err \in {"OnlyBuyer", "InvalidState"}

\* the buyer has deposited and the same deposit once more is turned down
C23_Witness ==
    /\ last.op = "deposit" /\ st.state = FUNDED /\ last.caller = params.buyer
    /\ IsGa => st.gasPoolBalance > 0
    /\ Run("deposit", [BaseCall(params.buyer) EXCEPT
                          !.value = RequiredSum(st.gasPoolBalance),
                          !.gasPool = st.gasPoolBalance]).err = "InvalidState"

\* ---------------------------------------------------------------------------
\* dispute
\* ---------------------------------------------------------------------------

\* the review window is over
ReviewOver == now > st.deliveredAt + params.reviewPeriod

\* the dispute calls tried: the direct call of every caller, the relayed call of
\* every caller for every signer
DisputeCalls ==
    IF IsSimple THEN {<<"dispute", BaseCall(a)>> : a \in Callers}
    ELSE UNION {MetaAttempts("metaDispute", a, s, RAISE_DISPUTE) :
                    a \in Callers, s \in Signers}

\* the party on whose behalf a dispute call is made
Disputant(c) == IF IsSimple THEN c.caller ELSE c.signer

\* the gas-abstracted constructor turns down the null arbiter
NullArbiterRejected ==
    IsGa => \A v \in DeployValues("ga", CreationArgs) :
                constructor_ga([CreationArgs EXCEPT !.arbiter = Zero],
                               Running(EmptyStorage, 0),
                               FactoryCall(params.buyer, v)).err
                    = "Invalid arbiter/relayer"

\* C24 as stated: with a null arbiter every dispute call of the simple variant
\* fails with NoArbiterSet, and in both variants every dispute attempted after
\* the review window fails with ReviewPeriodEnded.
C24_Original ==
    /\ NullArbiterRejected
    /\ params.arbiter = Zero => st.state # DISPUTED
    /\ \A a \in DisputeCalls :
        LET m == Run(a[1], a[2])
        IN  /\ (IsSimple /\ params.arbiter = Zero) => m.err = "NoArbiterSet"
            /\ ReviewOver => m.err = "ReviewPeriodEnded"

\* C24: a dispute succeeds only while an arbiter is set and now <= deliveredAt +
\* reviewPeriod. Simple variant with a null arbiter: every dispute call fails and
\* DISPUTED is unreachable; the error is InvalidState outside DELIVERED,
\* OnlyBuyerOrSeller for another caller, NoArbiterSet for the buyer or the seller
\* in DELIVERED (also after the window). Gas-abstracted variant: the constructor
\* rejects a null arbiter, so every instance has one. After the window every
\* dispute fails and changes nothing; it fails with ReviewPeriodEnded when the
\* earlier checks pass (simple: state DELIVERED, caller buyer or seller, arbiter
\* set; gas-abstracted: caller the relayer, state DELIVERED, signer buyer or
\* seller, signature deadline not passed).
C24_DisputeGuards ==
    /\ NullArbiterRejected
    /\ IsGa => params.arbiter # Zero
    /\ params.arbiter = Zero => st.state # DISPUTED
    /\ \A a \in DisputeCalls :
        LET c == a[2]
            m == Run(a[1], c)
            party == Disputant(c) \in {params.buyer, params.seller}
        IN  /\ ~Failed(m) =>
                 /\ params.arbiter # Zero /\ ~ReviewOver
                 /\ st.state = DELIVERED /\ party
                 /\ m.st.state = DISPUTED
            /\ (IsSimple /\ params.arbiter = Zero) =>
                 m.err = IF st.state # DELIVERED THEN "InvalidState"
                         ELSE IF ~party THEN "OnlyBuyerOrSeller"
                         ELSE "NoArbiterSet"
            /\ ReviewOver => Failed(m) /\ NoEffect(m)
            /\ (ReviewOver /\ IsSimple /\ st.state = DELIVERED /\ party
                /\ params.arbiter # Zero) => m.err = "ReviewPeriodEnded"
            /\ (ReviewOver /\ IsGa /\ st.state = DELIVERED /\ party
                /\ c.caller = params.arbiter /\ ~(c.now > c.deadline)) =>
                     m.err = "ReviewPeriodEnded"

\* delivered without an arbiter and past the review window: the buyer's dispute
\* is turned down for the missing arbiter
C24_Witness ==
    /\ IsSimple /\ params.arbiter = Zero /\ st.state = DELIVERED /\ ReviewOver
    /\ Run("dispute", BaseCall(params.buyer)).err = "NoArbiterSet"

\* ---------------------------------------------------------------------------
\* resolveDispute
\* ---------------------------------------------------------------------------

\* the resolveDispute calls tried: every caller naming every winner, and for a
\* call that goes through every choice of gas and of rejecting recipients
ResolveCalls ==
    UNION {LET c0 == [BaseCall(a) EXCEPT !.winner = w]
           IN  IF Failed(Run("resolveDispute", c0)) THEN {c0}
               ELSE IF IsSimple THEN WithRejects(c0) ELSE WithGas(c0) :
           a \in Callers, w \in Winners}

\* C25: resolveDispute(winner) succeeds only in state DISPUTED, only for the
\* arbiter and only when winner is the buyer or the seller; the arbiter naming
\* anybody else in DISPUTED fails with InvalidWinner and nothing changes. On
\* success the state is REFUNDED when winner is the buyer and COMPLETE when
\* winner is the seller, and the principal goes to the winner and to nobody else.
C25_ResolveDispute ==
    \A c \in ResolveCalls :
        LET m == Run("resolveDispute", c)
            party == c.winner \in {params.buyer, params.seller}
            due == st.state = DISPUTED /\ c.caller = params.arbiter
        IN  /\ ~Failed(m) =>
                 /\ due /\ party
                 /\ m.st.state = IF c.winner = params.buyer THEN REFUNDED ELSE COMPLETE
                 /\ PrincipalTo(m.log, c.winner) = Principal
                 /\ PrincipalXfers(m.log) = 1
                 /\ \A a \in Callers \ {c.winner} : PrincipalTo(m.log, a) = 0
            /\ (due /\ ~party) => m.err = "InvalidWinner" /\ NoEffect(m)
            /\ (due /\ party /\ c.rej = {}) => ~Failed(m)
            /\ ~due => Failed(m) /\ NoEffect(m)

\* the arbiter has resolved a dispute for the seller, who got the principal
C25_Witness ==
    /\ last.op = "resolveDispute" /\ last.caller = params.arbiter
    /\ last.winner = params.seller
    /\ st.state = COMPLETE
    /\ PrincipalTo(last.log, params.seller) = Principal

\* ---------------------------------------------------------------------------
\* Racing calls
\* ---------------------------------------------------------------------------

\* C26: of the calls racing for the same source state at most one succeeds in
\* any order: a successful operation changes the state, and every call that
\* would have succeeded in its place fails with InvalidState once it has run.
C26_OneWinner ==
    [][st' # st =>
        /\ st'.state # st.state
        /\ \A a \in Attempts :
              ~Failed(RunOn(Running(st, bal), a[1], a[2])) =>
                  RunOn(Running(st', bal'), a[1], a[2]).err = "InvalidState"]_vars

\* the seller's dispute went first: the buyer's confirmation, which would have
\* gone through in DELIVERED, now fails with InvalidState
C26_Witness ==
    /\ IsSimple /\ last.op = "dispute" /\ last.caller = params.seller
    /\ st.state = DISPUTED
    /\ Run("confirmDelivery", BaseCall(params.buyer)).err = "InvalidState"
    /\ ~Failed(RunOn(Running([st EXCEPT !.state = DELIVERED], bal),
                     "confirmDelivery", BaseCall(params.buyer)))

\* ---------------------------------------------------------------------------
\* Events and the transfers they report
\* ---------------------------------------------------------------------------

\* the amount carried by the events of the given names
Reported(log, names) ==
    Total(log, LAMBDA e : IF ~IsXfer(e) /\ e.what \in names THEN e.amt ELSE 0)

\* C27 as stated: in the gas-abstracted variant the amount in a Refunded or
\* AutoRefunded event equals the value transferred to the buyer by that
\* operation, and a leftover gas pool that is returned is reported by a
\* GasPoolRefunded event or included in the amount of the refund event.
C27_Original ==
    (IsGa /\ last.op \in {"metaRefund", "claimRefundByTimeout"}) =>
        /\ Reported(last.log, {"Refunded", "AutoRefunded"})
               = XferTo(last.log, params.buyer)
        /\ PoolOut(last.log)
               = Reported(last.log, {"GasPoolRefunded"})
                 + Reported(last.log, {"Refunded", "AutoRefunded"}) - params.escrowAmount

\* ---------------------------------------------------------------------------
\* The edges of the state machine
\* ---------------------------------------------------------------------------

Edges ==
    {<<AWAITING_PAYMENT, FUNDED>>, <<FUNDED, DELIVERED>>, <<FUNDED, REFUNDED>>,
     <<DELIVERED, COMPLETE>>, <<DELIVERED, DISPUTED>>, <<DISPUTED, COMPLETE>>,
     <<DISPUTED, REFUNDED>>}

\* the states a call that goes through now leads to
Successors == {Run(a[1], a[2]).st.state : a \in {b \in Attempts : ~Failed(Run(b[1], b[2]))}}

C29_NonceBeforeTransfers ==
    /\ \A a \in {b \in Attempts : b[1] \in MetaOps /\ ~Failed(Run(b[1], b[2]))} :
          LET key == <<a[2].signer, KindOf[a[1]]>>
          IN  Run(a[1], a[2]).st.nonces[key] = st.nonces[key] + 1
    /\ \A b \in {x \in TransferringCalls : x[1] \in MetaOps} :
          LET key == <<b[2].signer, KindOf[b[1]]>>
          IN  /\ Run(b[1], b[2]).st.nonces[key] = st.nonces[key] + 1
              /\ \A r \in Recipients(Run(b[1], b[2]).log) :
                    LET mid == DuringTransfer(b[1], b[2], r)
                    IN  /\ mid.st.nonces[key] = st.nonces[key] + 1
                        /\ Failed(RunOn(mid, b[1], b[2]))
                        /\ Failed(_verifySignature(mid, b[2].signer, KindOf[b[1]],
                                                   b[2].nonce, b[2].deadline,
                                                   b[2].signature))

\* a signed confirmation can be accepted now, paying the relayer, the arbiter
\* and the seller, and the nonce is already incremented when the relayer is paid
C29_Witness ==
    /\ IsGa /\ st.state = DELIVERED /\ params.arbiterFee > 0
    /\ \E b \in TransferringCalls :
          /\ b[1] = "metaConfirmDelivery"
          /\ {params.arbiter, params.seller} \subseteq Recipients(Run(b[1], b[2]).log)
          /\ XferOf(Run(b[1], b[2]).log, "gas") > 0
          /\ DuringTransfer(b[1], b[2], params.arbiter).st.nonces[
                 <<params.buyer, CONFIRM_DELIVERY>>]
               = st.nonces[<<params.buyer, CONFIRM_DELIVERY>>] + 1

\* ---------------------------------------------------------------------------
\* One nonce sequence per signer and action kind
\* ---------------------------------------------------------------------------

\* C30: in the gas-abstracted variant an accepted meta action increments only
\* nonces[signer][its kind], by one; the nonce of every other signer and of
\* every other kind is unchanged, so for every other (signer, kind) the action
\* signed with the nonce stored before is still verified afterwards. Calls that
\* are not meta actions change no nonce.
C30_NonceIndependence ==
    IsGa =>
        \A a \in {b \in Attempts : ~Failed(Run(b[1], b[2]))} :
            LET m == Run(a[1], a[2])
                after == Running(m.st, m.bal)
            IN  IF a[1] \in MetaOps
                THEN LET key == <<a[2].signer, KindOf[a[1]]>>
                     IN  /\ m.st.nonces = [st.nonces EXCEPT ![key] = @ + 1]
                         /\ \A k \in (Signers \X ActionType) \ {key} :
                               ~Failed(_verifySignature(after, k[1], k[2], st.nonces[k],
                                   MaxTime, Expected(k[1], k[2], st.nonces[k], MaxTime)))
                ELSE m.st.nonces = st.nonces

\* the seller's signed markDelivered was accepted; the seller's dispute signed
\* with nonce 0 is accepted after it
C30_Witness ==
    /\ IsGa /\ last.op = "metaMarkDelivered" /\ st.state = DELIVERED
    /\ st.nonces[<<params.seller, MARK_DELIVERED>>] = 1
    /\ st.nonces[<<params.seller, RAISE_DISPUTE>>] = 0
    /\ ~Failed(Run("metaDispute", ValidRelay(params.seller, RAISE_DISPUTE)))

\* ---------------------------------------------------------------------------
\* The checks on a signed action
\* ---------------------------------------------------------------------------

\* the guard on ledger time a meta function places between the expiry check
\* and the verification of the signature
TimeGuardPasses(op) ==
    CASE op = "metaMarkDelivered" -> ~(now > params.deliveryDeadline)
      [] op = "metaRefund" -> TRUE
      [] OTHER -> /\ ~AddOverflows(st.deliveredAt, params.reviewPeriod)
                  /\ ~(now > st.deliveredAt + params.reviewPeriod)

C32_EmptyPoolProceeds ==
    (IsGa /\ st.gasPoolBalance = 0) =>
        \A op \in MetaOps : \A signer \in SignersOf[op], x \in GasChoices :
            LET c == [ValidRelay(signer, KindOf[op]) EXCEPT
                          !.gasSpent = x.gasSpent, !.gasPrice = x.gasPrice]
                m == Run(op, c)
                source == IF op \in {"metaMarkDelivered", "metaRefund"}
                          THEN FUNDED ELSE DELIVERED
            IN  (st.state = source /\ TimeGuardPasses(op)) =>
                    /\ ~Failed(m)
                    /\ m.st.state # st.state
                    /\ m.st.state \in {COMPLETE, REFUNDED} =>
                          PrincipalXfers(m.log) = 1 /\ m.bal = 0
                    /\ \A i \in 1..Len(m.log) :
                          /\ ~(IsXfer(m.log[i]) /\ m.log[i].what = "gas")
                          /\ ~(~IsXfer(m.log[i]) /\ m.log[i].what = "GasReimbursed")
                    /\ m.st.gasPoolBalance = 0

\* a signed confirmation was relayed and settled on an instance that never had
\* a gas pool
C32_Witness ==
    /\ IsGa /\ tot.poolDeposited = 0
    /\ last.op = "metaConfirmDelivery" /\ st.state = COMPLETE
    /\ last.caller = params.arbiter
    /\ XferOf(last.log, "gas") = 0 /\ PrincipalTo(last.log, params.seller) = Principal

\* ---------------------------------------------------------------------------
\* The read-only accessors and the guards they preview
\* ---------------------------------------------------------------------------

canClaimRefundByTimeout(p, s, t) ==
    Returned(s.state = FUNDED /\ t > p.deliveryDeadline)

\* C33 as stated: at every time and in every state canClaimByTimeout() returns
\* true exactly when claimByTimeout would pass (state DELIVERED and now >
\* deliveredAt + reviewPeriod), canClaimRefundByTimeout() returns true exactly
\* when the buyer's claimRefundByTimeout would pass (state FUNDED and now >
\* deliveryDeadline), and reviewDeadline() returns 0 while deliveredAt = 0 and
\* deliveredAt + reviewPeriod afterwards.
C33_Original ==
    /\ canClaimByTimeout(params, st, now)
         = Returned(~Failed(Run("claimByTimeout", BaseCall(Other))))
    /\ canClaimByTimeout(params, st, now)
         = Returned(st.state = DELIVERED /\ now > st.deliveredAt + params.reviewPeriod)
    /\ canClaimRefundByTimeout(params, st, now)
         = Returned(~Failed(Run("claimRefundByTimeout", BaseCall(params.buyer))))
    /\ reviewDeadline(params, st)
         = Returned(IF st.deliveredAt = 0 THEN 0
                    ELSE st.deliveredAt + params.reviewPeriod)

\* ---------------------------------------------------------------------------
\* deliveredAt
\* ---------------------------------------------------------------------------

\* C34: deliveredAt is written once, with the ledger time, by the operation
\* that moves FUNDED to DELIVERED, and by nothing else; it is 0 in
\* AWAITING_PAYMENT and FUNDED and stays 0 when REFUNDED is entered from FUNDED;
\* in DELIVERED and DISPUTED (and whatever follows them) 0 < deliveredAt <=
\* deliveryDeadline.
C34_DeliveredAtOnce ==
    /\ [][/\ st'.deliveredAt # st.deliveredAt =>
                /\ st.state = FUNDED /\ st'.state = DELIVERED
                /\ st.deliveredAt = 0 /\ st'.deliveredAt = now
                /\ last'.op \in {"markDelivered", "metaMarkDelivered"}
          /\ (st.state = FUNDED /\ st'.state = DELIVERED) => st'.deliveredAt = now
          /\ (st.state = FUNDED /\ st'.state = REFUNDED) => st'.deliveredAt = 0]_vars
    /\ [](/\ now >= 1
          /\ st.state \in {AWAITING_PAYMENT, FUNDED} => st.deliveredAt = 0
          /\ st.state \in {DELIVERED, DISPUTED, COMPLETE} =>
                0 < st.deliveredAt /\ st.deliveredAt <= params.deliveryDeadline
          /\ st.deliveredAt <= now)

\* a dispute is open, time has gone on since the delivery was marked and
\* deliveredAt still holds the time of the marking
C34_Witness ==
    /\ st.state = DISPUTED
    /\ 0 < st.deliveredAt /\ st.deliveredAt < now
    /\ st.deliveredAt <= params.deliveryDeadline

\* ---------------------------------------------------------------------------
\* The value held and its tracked components
\* ---------------------------------------------------------------------------

\* C35: between operations the value held equals the sum of the tracked
\* components. Gas-abstracted variant: 0 in AWAITING_PAYMENT, escrowAmount +
\* gasPoolBalance + arbiterFee in FUNDED, DELIVERED and DISPUTED, 0 in COMPLETE
\* and REFUNDED. Simple variant: 0 in AWAITING_PAYMENT and in the terminal
\* states, amount otherwise, so every transfer it makes, a sweep of the whole
\* balance, pays exactly amount.
C35_HeldValue ==
    LET held == st.state \in {FUNDED, DELIVERED, DISPUTED}
    IN  /\ IsGa =>
            /\ bal = IF held
                     THEN params.escrowAmount + st.gasPoolBalance + params.arbiterFee
                     ELSE 0
            /\ held => ~st.arbiterFeePaid
            /\ ~held => st.gasPoolBalance = 0
        /\ IsSimple =>
            /\ bal = IF held THEN params.amount ELSE 0
            /\ \A i \in 1..Len(last.log) :
                  IsXfer(last.log[i]) =>
                      last.log[i].amt = params.amount /\ st.state \in {COMPLETE, REFUNDED}

\* a gas-abstracted instance holding principal, fee and what is left of a gas
\* pool that has already paid a reimbursement
C35_Witness ==
    /\ IsGa /\ st.state = DELIVERED /\ params.arbiterFee > 0
    /\ tot.gasPaid > 0 /\ st.gasPoolBalance > 0
    /\ bal = params.escrowAmount + st.gasPoolBalance + params.arbiterFee

\* ---------------------------------------------------------------------------
\* The seller's voluntary refund
\* ---------------------------------------------------------------------------

\* the seller's refund as it is handed in now: the direct call of the seller,
\* or the relayer's call with the seller's signed request
VoluntaryRefund ==
    IF IsSimple THEN <<"refund", BaseCall(params.seller)>>
    ELSE <<"metaRefund", ValidRelay(params.seller, REQUEST_REFUND)>>

\* C36 as stated: the seller's refund is accepted at every instant while FUNDED
\* and in no other state, and at no instant both it and the refund by timeout
\* (the buyer's claimRefundByTimeout) are valid.
C36_Original ==
    /\ ~Failed(Run(VoluntaryRefund[1], VoluntaryRefund[2])) <=> st.state = FUNDED
    /\ ~(/\ ~Failed(Run(VoluntaryRefund[1], VoluntaryRefund[2]))
         /\ ~Failed(Run("claimRefundByTimeout", BaseCall(params.buyer))))

\* C36: the seller's refund has no time guard: handed in with the right
\* authorization it is accepted exactly while the state is FUNDED, before and
\* after deliveryDeadline, and moves the instance to REFUNDED; in any other
\* state it fails with InvalidState. The buyer's claimRefundByTimeout is valid
\* exactly while FUNDED at now > deliveryDeadline, so after the deadline both
\* are valid at the same instant, and before it (and at it) only the seller's.
C36_VoluntaryRefund ==
    LET vol == Run(VoluntaryRefund[1], VoluntaryRefund[2])
        auto == Run("claimRefundByTimeout", BaseCall(params.buyer))
    IN  /\ ~Failed(vol) <=> st.state = FUNDED
        /\ ~Failed(vol) => vol.st.state = REFUNDED
        /\ st.state # FUNDED => vol.err = "InvalidState"
        /\ ~Failed(auto) <=> (st.state = FUNDED /\ now > params.deliveryDeadline)
        /\ (~Failed(vol) /\ ~Failed(auto)) <=>
               (st.state = FUNDED /\ now > params.deliveryDeadline)

\* funded and past the delivery deadline: the seller's refund and the buyer's
\* refund by timeout would both go through
C36_Witness ==
    /\ st.state = FUNDED /\ now > params.deliveryDeadline
    /\ ~Failed(Run(VoluntaryRefund[1], VoluntaryRefund[2]))
    /\ ~Failed(Run("claimRefundByTimeout", BaseCall(params.buyer)))

\* ---------------------------------------------------------------------------
\* The range of the nonces
\* ---------------------------------------------------------------------------

\* C37: in the gas-abstracted variant every nonce is 0 or 1 in every reachable
\* state: for each (signer, action kind) at most one signed action is ever
\* accepted, the nonce counts the accepted ones, once it is 1 no further action
\* of that signer and kind is accepted, and the nonces of identities other
\* than buyer and seller stay 0.
C37_NonceRange ==
    IsGa =>
        /\ \A k \in NonceKeys :
              /\ st.nonces[k] \in {0, 1}
              /\ k[1] \notin {params.buyer, params.seller} => st.nonces[k] = 0
              /\ st.nonces[k]
                   = Cardinality({y \in accepted : y.signer = k[1] /\ KindOf[y.op] = k[2]})
        /\ \A a \in {b \in Attempts : b[1] \in MetaOps} :
              st.nonces[<<a[2].signer, KindOf[a[1]]>>] = 1 => Failed(Run(a[1], a[2]))

\* a settled instance on which the seller's signed delivery and the buyer's
\* signed confirmation were accepted, one each
C37_Witness ==
    /\ IsGa /\ st.state = COMPLETE
    /\ st.nonces[<<params.seller, MARK_DELIVERED>>] = 1
    /\ st.nonces[<<params.buyer, CONFIRM_DELIVERY>>] = 1
    /\ Cardinality(accepted) = 2

\* ---------------------------------------------------------------------------
\* What the arbiter receives
\* ---------------------------------------------------------------------------

\* C38 as stated: the principal is only ever transferred to the buyer or the
\* seller and never taken by the arbiter; in the gas-abstracted variant the
\* arbiter receives over the life of an instance at most arbiterFee plus the
\* amount deposited as gas pool, and of each action at most the fee plus
\* maxGasPerAction * maxGasPrice.
C38_Original ==
    /\ \A a \in Callers \ {params.buyer, params.seller} : tot.principalPaid[a] = 0
    /\ params.arbiter # Zero => tot.principalPaid[params.arbiter] = 0
    /\ IsGa =>
          /\ tot.paid[params.arbiter] <= params.arbiterFee + tot.poolDeposited
          /\ XferTo(last.log, params.arbiter)
                <= params.arbiterFee + params.maxGasPerAction * params.maxGasPrice

\* ---------------------------------------------------------------------------
\* DISPUTED
\* ---------------------------------------------------------------------------

CallsRejectedBy(rej) ==
    UNION {{<<a[1], [a[2] EXCEPT !.rej = rej, !.gasSpent = x.gasSpent,
                                 !.gasPrice = x.gasPrice]>> : x \in GasChoices} :
           a \in {a0 \in Attempts : Run(a0[1], a0[2]).err \notin GuardErrors}}

\* what the gas pool holds once call c of op has reimbursed its relayer
Leftover(op, c) ==
    IF op \in ReimbursingOps
    THEN st.gasPoolBalance - GasRefund(params, st.gasPoolBalance, c.gasSpent, c.gasPrice)
    ELSE st.gasPoolBalance

\* C40 as stated: in the gas-abstracted variant, while the buyer rejects
\* incoming transfers and gasPoolBalance > 0 no operation moves the instance
\* into COMPLETE, and while the arbiter rejects incoming transfers and
\* arbiterFee > 0 no operation moves it into a terminal state.
C40_Original ==
    IsGa =>
        /\ st.gasPoolBalance > 0 =>
              \A b \in CallsRejectedBy({params.buyer}) :
                  LET m == Run(b[1], b[2])
                  IN  ~(~Failed(m) /\ m.st.state = COMPLETE)
        /\ params.arbiterFee > 0 =>
              \A b \in CallsRejectedBy({params.arbiter}) :
                  LET m == Run(b[1], b[2])
                  IN  ~(~Failed(m) /\ m.st.state \in {COMPLETE, REFUNDED})

\* C40: in the gas-abstracted variant, while the buyer rejects incoming
\* transfers an operation moves the instance into COMPLETE only if no gas pool
\* is left once the operation has reimbursed its relayer: claimByTimeout, which
\* reimburses nothing, fails whenever gasPoolBalance > 0, metaConfirmDelivery
\* and resolveDispute for the seller fail unless the reimbursement uses up the
\* pool; no operation moves it into REFUNDED. While the arbiter rejects
\* incoming transfers and arbiterFee > 0 no operation moves the instance into a
\* terminal state. A call that fails so changes nothing.
C40_SettlementNeedsAcceptance ==
    IsGa =>
        /\ \A b \in CallsRejectedBy({params.buyer}) :
              LET m == Run(b[1], b[2])
                  settles == Run(b[1], [b[2] EXCEPT !.rej = {}]).st.state
              IN  /\ (~Failed(m) /\ m.st.state = COMPLETE) => Leftover(b[1], b[2]) = 0
                  /\ (settles = COMPLETE /\ Leftover(b[1], b[2]) > 0) =>
                        m.err = "FailedCall" /\ NoEffect(m)
                  /\ (settles = COMPLETE /\ Leftover(b[1], b[2]) = 0) =>
                        ~Failed(m) /\ XferTo(m.log, params.buyer) = 0
                  /\ settles = REFUNDED => Failed(m) /\ NoEffect(m)
        /\ params.arbiterFee > 0 =>
              \A b \in CallsRejectedBy({params.arbiter}) :
                  LET m == Run(b[1], b[2])
                      settles == Run(b[1], [b[2] EXCEPT !.rej = {}]).st.state
                  IN  /\ ~(~Failed(m) /\ m.st.state \in {COMPLETE, REFUNDED})
                      /\ settles \in {COMPLETE, REFUNDED} => Failed(m) /\ NoEffect(m)

\* the buyer rejects transfers and gas pool is left, yet a relayed confirmation
\* completes the escrow: its reimbursement uses up the pool and nothing is
\* sent to the buyer
C40_Witness ==
    /\ IsGa /\ st.state = DELIVERED /\ st.gasPoolBalance > 0
    /\ \E b \in CallsRejectedBy({params.buyer}) :
          /\ b[1] = "metaConfirmDelivery"
          /\ ~Failed(Run(b[1], b[2])) /\ Run(b[1], b[2]).st.state = COMPLETE
          /\ XferOf(Run(b[1], b[2]).log, "gas") = st.gasPoolBalance

====
